---- MODULE Spec2Model ----
(***************************************************************************)
(* A model of search_server.py: the in-process result cache (SimpleCache), *)
(* the three tools that go through it, and the site crawler.               *)
(*                                                                         *)
(* Python values are modelled as records, so that None, integers and       *)
(* result envelopes can be compared with one another: None is              *)
(* [py |-> "None"], an int n is [int |-> n], a JSON result string is the   *)
(* record of the object it serialises.  A Python dict is a function; its   *)
(* keys are its DOMAIN.                                                    *)
(***************************************************************************)
EXTENDS Integers, Sequences, FiniteSets, TLC

VARIABLES
    cache,      \* the global SimpleCache instance: _cache, _timestamps, default_ttl
    twin,       \* a second SimpleCache driven by the same calls, every set without ttl
    now,        \* time.time(), in seconds
    setAt,      \* history: for each key, the time of the latest set(key)
    last,       \* the last operation and what it returned
    prev,       \* the operation before it
    mk,         \* the last call of _make_key: its arguments and the key returned
    mkPrev,     \* the call of _make_key before it
    call,       \* the last tool call: its arguments, its result, whether it
                \* invoked its external operation
    memo,       \* history: for each tool and arguments, the result of the
                \* latest successful call since the last clear_cache, and the
                \* time at which that result was stored
    crawl_pc,   \* "idle", "loop" (at the head of the while loop) or "done"
    start_url,  \* the crawl's url, after the scheme was added
    max_pages,
    same_domain,
    base_domain,
    visited,
    to_visit,
    pages,
    crawl_ret,  \* what the crawl returned
    fetched,    \* history: the requests of the crawl in order, each with the
                \* URL requested and whether a page came back and was parsed
    enq,        \* history: the URLs appended to to_visit, in order (the seed first)
    links,      \* history: for each page recorded, the targets of its anchors
                \* that pass the three filters
    kept,       \* history: for each page recorded, the targets that the loop
                \* over its anchors reached and that passed the three filters
    step,       \* the last iteration of the crawl loop: the URL popped, the
                \* exception of its request, what the loop over the anchors
                \* did with each anchor and the URLs it appended to to_visit
    page,       \* the hrefs of the anchors of the page of the last iteration,
                \* in the runs that observe them
    js_pc,      \* where the call of fetch_webpage_js or take_screenshot under
                \* way stands: the statement it runs next ("idle" before the
                \* first call, "done" after a return)
    js_call,    \* that call: the tool, its url, whether it launched a browser
    session,    \* the Playwright driver (running or not) and the number of
                \* browser processes open
    js_ret,     \* what the last call that returned has returned
    th          \* for each of two threads, its call of fetch_as_markdown: the
                \* statement it runs next, its cache key, the result it has
                \* built, what it returned, whether it requested the page, and
                \* whether and when its cache.set finished

apiVars == <<twin, setAt, last, prev>>

keyVars == <<mk, mkPrev>>

toolVars == <<call, memo>>

crawlVars == <<crawl_pc, start_url, max_pages, same_domain, base_domain,
               visited, to_visit, pages, crawl_ret, fetched, enq, links, kept, step>>

jsVars == <<js_pc, js_call, session, js_ret>>

vars == <<cache, now, apiVars, keyVars, toolVars, crawlVars, page, jsVars, th>>

\* what a call on the cache object, a call of _make_key and a tool call leave alone
exceptApi == <<keyVars, toolVars, crawlVars, page, jsVars, th>>

exceptKey == <<cache, now, apiVars, toolVars, crawlVars, page, jsVars, th>>

exceptTool == <<apiVars, keyVars, crawlVars, page, jsVars, th>>

exceptCrawl == <<cache, now, apiVars, keyVars, toolVars, page, jsVars, th>>

\* what an iteration of the crawl whose anchors are observed leaves alone
exceptPage == <<cache, now, apiVars, keyVars, toolVars, jsVars, th>>

\* what a statement of fetch_webpage_js or take_screenshot leaves alone
exceptJs == <<cache, now, apiVars, keyVars, toolVars, crawlVars, page, th>>

\* what a statement of a thread's call of fetch_as_markdown leaves alone
exceptThread == <<apiVars, keyVars, toolVars, crawlVars, page, jsVars>>

(***************************************************************************)
(* Bounds of the model.                                                    *)
(***************************************************************************)
MaxTime == 600

MaxArgs == 2

\* the largest page budget a crawl is given, and the most links on a page
MaxBudget == 3

MaxLinks == 2

\* the clock's bound while tools are called
MaxToolTime == 300

Keys == {"k1", "k2"}

(***************************************************************************)
(* Python values.                                                          *)
(***************************************************************************)
None == [py |-> "None"]

PyInt(n) == [int |-> n]

\* a str, as the sequence of its pieces: "https://a.com/x" is <<"https://", "a.com", "/x">>
PyStr(s) == [str |-> s]

Values == {[py |-> "v1"], [py |-> "v2"], None}

\* the ttl argument of set: left out (None), or an int below or above the default
Ttls == {None, PyInt(0), PyInt(600)}

EmptyDict == <<>>

DictSet(d, k, v) == [x \in (DOMAIN d) \cup {k} |-> IF x = k THEN v ELSE d[x]]

DictDel(d, k) == [x \in (DOMAIN d) \ {k} |-> d[x]]

(***************************************************************************)
(* SimpleCache.                                                            *)
(***************************************************************************)
DefaultTtl == 300

SimpleCache_init(default_ttl) ==
    [_cache |-> EmptyDict, _timestamps |-> EmptyDict, default_ttl |-> default_ttl]

\* the keyword names, in the order sorted() gives them
KwOrder == <<"a", "b">>

Rank(name) == CHOOSE i \in DOMAIN KwOrder : KwOrder[i] = name

Range(f) == {f[i] : i \in DOMAIN f}

\* json.dumps(..., sort_keys=True) of a dict whose items came in the order kw:
\* the items by ascending key
SortKeys(kw) ==
    [i \in DOMAIN kw |->
        CHOOSE p \in Range(kw) :
            Cardinality({q \in Range(kw) : Rank(q[1]) < Rank(p[1])}) = i - 1]

\* json.dumps([args, kwargs], sort_keys=True, default=str): the text is
\* determined by the positional values in order and the keyword items by key
json_dumps(args, kwargs) == <<args, SortKeys(kwargs)>>

\* hashlib.md5(text).hexdigest(): one digest per text
md5_hexdigest(text) == [md5 |-> text]

\* _make_key with json.dumps called without sort_keys: the items in call order
_make_key_unsorted(args, kwargs) == md5_hexdigest(<<args, kwargs>>)

\* _make_key(*args, **kwargs); kwargs is the sequence of <<name, value>> in the
\* order the caller wrote them
_make_key(args, kwargs) == md5_hexdigest(json_dumps(args, kwargs))

\* The clock advances by steps around the TTL, so that ages just below it, equal
\* to it and just above it all occur (differences of 0, 1, 299, 300, 301, ...).
TickSteps == {DefaultTtl - 1, DefaultTtl}

\* get with the expiry test written <= : an entry aged exactly default_ttl is a hit.
SimpleCache_get_le(c, key, t) ==
    IF key \in DOMAIN c._cache
    THEN IF key \notin DOMAIN c._timestamps
         THEN [ret |-> None, exc |-> "KeyError", c |-> c]
         ELSE IF t - c._timestamps[key] <= c.default_ttl
              THEN [ret |-> c._cache[key], exc |-> "none", c |-> c]
              ELSE [ret |-> None, exc |-> "none",
                    c |-> [c EXCEPT !._cache = DictDel(c._cache, key),
                                    !._timestamps = DictDel(c._timestamps, key)]]
    ELSE [ret |-> None, exc |-> "none", c |-> c]

\* get that reports the miss of an expired entry and leaves the entry in place.
SimpleCache_get_keep(c, key, t) ==
    IF key \in DOMAIN c._cache
    THEN IF key \notin DOMAIN c._timestamps
         THEN [ret |-> None, exc |-> "KeyError", c |-> c]
         ELSE IF t - c._timestamps[key] < c.default_ttl
              THEN [ret |-> c._cache[key], exc |-> "none", c |-> c]
              ELSE [ret |-> None, exc |-> "none", c |-> c]
    ELSE [ret |-> None, exc |-> "none", c |-> c]

\* get that removes the value of an expired entry and leaves its timestamp.
SimpleCache_get_halfdel(c, key, t) ==
    IF key \in DOMAIN c._cache
    THEN IF key \notin DOMAIN c._timestamps
         THEN [ret |-> None, exc |-> "KeyError", c |-> c]
         ELSE IF t - c._timestamps[key] < c.default_ttl
              THEN [ret |-> c._cache[key], exc |-> "none", c |-> c]
              ELSE [ret |-> None, exc |-> "none",
                    c |-> [c EXCEPT !._cache = DictDel(c._cache, key)]]
    ELSE [ret |-> None, exc |-> "none", c |-> c]

\* get(key) at time t: the value returned, the exception raised (if any) and the
\* cache afterwards.
SimpleCache_get(c, key, t) ==
    IF key \in DOMAIN c._cache
    THEN IF key \notin DOMAIN c._timestamps
         THEN [ret |-> None, exc |-> "KeyError", c |-> c]
         ELSE IF t - c._timestamps[key] < c.default_ttl
              THEN [ret |-> c._cache[key], exc |-> "none", c |-> c]
              ELSE [ret |-> None, exc |-> "none",
                    c |-> [c EXCEPT !._cache = DictDel(c._cache, key),
                                    !._timestamps = DictDel(c._timestamps, key)]]
    ELSE [ret |-> None, exc |-> "none", c |-> c]

\* set written with setdefault: an existing entry keeps its value.
SimpleCache_set_default(c, key, value, ttl, t) ==
    IF key \in DOMAIN c._cache
    THEN [c EXCEPT !._timestamps = DictSet(c._timestamps, key, t)]
    ELSE [c EXCEPT !._cache = DictSet(c._cache, key, value),
                   !._timestamps = DictSet(c._timestamps, key, t)]

\* set that keeps the insertion time of an entry it overwrites.
SimpleCache_set_stale(c, key, value, ttl, t) ==
    [c EXCEPT !._cache = DictSet(c._cache, key, value),
              !._timestamps = IF key \in DOMAIN c._timestamps
                              THEN c._timestamps
                              ELSE DictSet(c._timestamps, key, t)]

\* set that honours ttl: the entry is stamped so that it expires ttl seconds on.
SimpleCache_set_ttl(c, key, value, ttl, t) ==
    [c EXCEPT !._cache = DictSet(c._cache, key, value),
              !._timestamps = DictSet(c._timestamps, key,
                                  IF ttl = None THEN t
                                  ELSE t + ttl.int - c.default_ttl)]

\* set(key, value, ttl) at time t: ttl is not read.
SimpleCache_set(c, key, value, ttl, t) ==
    [c EXCEPT !._cache = DictSet(c._cache, key, value),
              !._timestamps = DictSet(c._timestamps, key, t)]

\* clear that drops the values and forgets the timestamps map.
SimpleCache_clear_values(c) ==
    [c EXCEPT !._cache = EmptyDict]

SimpleCache_clear(c) ==
    [c EXCEPT !._cache = EmptyDict, !._timestamps = EmptyDict]

(***************************************************************************)
(* The state after the module is loaded: cache = SimpleCache(300).         *)
(***************************************************************************)
\* (key is "-" for an operation that takes no key)
NoOp == [op |-> "none", key |-> "-", value |-> None, ttl |-> None,
         ret |-> None, twinRet |-> None, exc |-> "none"]

NoKeyCall == [called |-> FALSE, args |-> <<>>, kwargs |-> <<>>, key |-> None]

NoCall == [op |-> "none", args |-> <<>>, key |-> None, ret |-> None, ran |-> FALSE]

NoStep == [url |-> <<>>, exc |-> "-", verdicts |-> <<>>, added |-> <<>>]

NoJsCall == [op |-> "none", url |-> <<>>, launched |-> FALSE]

NoSession == [driver |-> FALSE, browsers |-> 0]

Threads == {1, 2}

NoThreadCall == [pc |-> "idle", key |-> None, result |-> None, ret |-> None,
                 ran |-> FALSE, stored |-> FALSE, stamp |-> 0]

Init ==
    /\ cache = SimpleCache_init(DefaultTtl)
    /\ twin = SimpleCache_init(DefaultTtl)
    /\ now = 0
    /\ setAt = EmptyDict
    /\ last = NoOp
    /\ prev = NoOp
    /\ mk = NoKeyCall
    /\ mkPrev = NoKeyCall
    /\ call = NoCall
    /\ memo = EmptyDict
    /\ crawl_pc = "idle"
    /\ start_url = <<>>
    /\ max_pages = 0
    /\ same_domain = TRUE
    /\ base_domain = ""
    /\ visited = {}
    /\ to_visit = <<>>
    /\ pages = <<>>
    /\ crawl_ret = None
    /\ fetched = <<>>
    /\ enq = <<>>
    /\ links = EmptyDict
    /\ kept = EmptyDict
    /\ step = NoStep
    /\ page = <<>>
    /\ js_pc = "idle"
    /\ js_call = NoJsCall
    /\ session = NoSession
    /\ js_ret = None
    /\ th = [t \in Threads |-> NoThreadCall]

(***************************************************************************)
(* Calls on the cache object itself.                                       *)
(***************************************************************************)
Get(k) ==
    LET r == SimpleCache_get(cache, k, now)
        r2 == SimpleCache_get(twin, k, now)
    IN  /\ cache' = r.c
        /\ twin' = r2.c
        /\ last' = [NoOp EXCEPT !.op = "get", !.key = k, !.ret = r.ret,
                                !.twinRet = r2.ret, !.exc = r.exc]
        /\ prev' = last
        /\ UNCHANGED <<now, setAt, exceptApi>>

Set(k, v, ttl) ==
    /\ cache' = SimpleCache_set(cache, k, v, ttl, now)
    /\ twin' = SimpleCache_set(twin, k, v, None, now)
    /\ setAt' = DictSet(setAt, k, now)
    /\ last' = [NoOp EXCEPT !.op = "set", !.key = k, !.value = v, !.ttl = ttl]
    /\ prev' = last
    /\ UNCHANGED <<now, exceptApi>>

\* the clear_cache tool: cache.clear(), then the confirmation
clear_cache(c) ==
    [c |-> SimpleCache_clear(c),
     ret |-> [status |-> "success", message |-> "Cache cleared successfully"]]

\* the clear_cache tool, called next to calls on the cache object
ClearCacheApi ==
    /\ cache' = clear_cache(cache).c
    /\ twin' = clear_cache(twin).c
    /\ last' = [NoOp EXCEPT !.op = "clear_cache", !.ret = clear_cache(cache).ret,
                            !.twinRet = clear_cache(twin).ret]
    /\ prev' = last
    /\ UNCHANGED <<now, setAt, exceptApi>>

Clear ==
    /\ cache' = SimpleCache_clear(cache)
    /\ twin' = SimpleCache_clear(twin)
    /\ last' = [NoOp EXCEPT !.op = "clear"]
    /\ prev' = last
    /\ UNCHANGED <<now, setAt, exceptApi>>

Tick(d) ==
    /\ now + d <= MaxTime
    /\ now' = now + d
    /\ last' = [NoOp EXCEPT !.op = "tick"]
    /\ prev' = last
    /\ UNCHANGED <<cache, twin, setAt, exceptApi>>

Next ==
    \/ \E k \in Keys : Get(k)
    \/ \E k \in Keys, v \in Values, ttl \in Ttls : Set(k, v, ttl)
    \/ Clear
    \/ ClearCacheApi
    \/ \E d \in TickSteps : Tick(d)

Spec == Init /\ [][Next]_vars

(***************************************************************************)
(* Calls of _make_key, two in a row, on arguments drawn from small sets.   *)
(***************************************************************************)
KeyArgValues == {PyInt(1), PyStr(<<"x">>)}

KwValues == {PyInt(1), PyInt(2)}

SeqsUpTo(S, n) == UNION {[1..m -> S] : m \in 0..n}

\* keyword arguments as the caller wrote them: no name twice
KwargsLists ==
    {kw \in SeqsUpTo(Range(KwOrder) \X KwValues, Len(KwOrder)) :
        \A i, j \in DOMAIN kw : i # j => kw[i][1] # kw[j][1]}

\* the dict Python builds from the keyword arguments
AsDict(kw) == [name \in {p[1] : p \in Range(kw)} |->
                 (CHOOSE p \in Range(kw) : p[1] = name)[2]]

MakeKey(args, kwargs) ==
    /\ mk' = [called |-> TRUE, args |-> args, kwargs |-> kwargs,
              key |-> _make_key(args, kwargs)]
    /\ mkPrev' = mk
    /\ UNCHANGED exceptKey

KeyNext ==
    \E args \in SeqsUpTo(KeyArgValues, MaxArgs), kwargs \in KwargsLists :
        MakeKey(args, kwargs)

KeySpec == Init /\ [][KeyNext]_vars

(***************************************************************************)
(* The cached tools.  A URL is the sequence of its pieces; what the        *)
(* network, the HTML-to-Markdown converter, the PDF library and the        *)
(* transcript backend answer is the call's outcome, chosen by the          *)
(* environment: an exception, or the data of a successful answer.  The     *)
(* packages the tools import are installed.                                *)
(***************************************************************************)
startswith_http(url) == Len(url) > 0 /\ url[1] \in {"http://", "https://"}

\* if not url.startswith(('http://', 'https://')): url = 'https://' + url
NormalizeUrl(url) == IF startswith_http(url) THEN url ELSE <<"https://">> \o url

\* str.lower(), on the pieces the model uses
Lower(piece) == IF piece = ".PDF" THEN ".pdf" ELSE piece

\* `if cached:` a result string is never empty, so only None is falsy
Truthy(v) == v # None

Exceptions == {"ConnectError", "HTTPStatusError"}

NoData == [title |-> <<>>, text |-> <<>>, ctype |-> "-"]

Raises(e) == [exc |-> e, data |-> NoData]

Returns(d) == [exc |-> "none", data |-> d]

\* pages: title and converted Markdown text, a character per piece
Pages == {[title |-> <<"T1">>, text |-> <<"a">>, ctype |-> "text/html"],
          [title |-> <<"T2">>, text |-> <<"b", "c">>, ctype |-> "text/html"]}

\* markdown_content[:max_length] + "\n\n... [truncated]" when it is longer
Truncate(text, max_length) ==
    IF Len(text) > max_length
    THEN SubSeq(text, 1, max_length) \o <<"\n\n... [truncated]">>
    ELSE text

ErrorResult(field, ident, prefix, e) ==
    [status |-> "error", echo |-> field, ident |-> ident, message |-> <<prefix, e>>]

\* _fetch_as_markdown_impl with no cache lookup: every call fetches
_fetch_as_markdown_impl_nolookup(c, url, max_length, t, outcome) ==
    LET cache_key == _make_key(<<PyStr(<<"markdown">>), PyStr(url), PyInt(max_length)>>, <<>>)
        url2 == NormalizeUrl(url)
    IN  IF outcome.exc # "none"
        THEN [ret |-> ErrorResult("url", url2, "Failed to fetch as markdown: ", outcome.exc),
              c |-> c, ran |-> TRUE, key |-> cache_key]
        ELSE LET result == [status |-> "success", url |-> url2,
                            title |-> outcome.data.title,
                            content_markdown |-> Truncate(outcome.data.text, max_length)]
             IN  [ret |-> result, c |-> SimpleCache_set(c, cache_key, result, None, t),
                  ran |-> TRUE, key |-> cache_key]

\* _fetch_as_markdown_impl(url, max_length) at time t on cache c: the result, the
\* cache afterwards, whether the page was requested, and the cache key
_fetch_as_markdown_impl(c, url, max_length, t, outcome) ==
    LET cache_key == _make_key(<<PyStr(<<"markdown">>), PyStr(url), PyInt(max_length)>>, <<>>)
        got == SimpleCache_get(c, cache_key, t)
        url2 == NormalizeUrl(url)
    IN  IF got.exc # "none"
        THEN [ret |-> ErrorResult("url", url, "Failed to fetch as markdown: ", got.exc),
              c |-> got.c, ran |-> FALSE, key |-> cache_key]
        ELSE IF Truthy(got.ret)
        THEN [ret |-> got.ret, c |-> got.c, ran |-> FALSE, key |-> cache_key]
        ELSE IF outcome.exc # "none"
        THEN [ret |-> ErrorResult("url", url2, "Failed to fetch as markdown: ", outcome.exc),
              c |-> got.c, ran |-> TRUE, key |-> cache_key]
        ELSE LET result == [status |-> "success", url |-> url2,
                            title |-> outcome.data.title,
                            content_markdown |-> Truncate(outcome.data.text, max_length)]
             IN  [ret |-> result, c |-> SimpleCache_set(got.c, cache_key, result, None, t),
                  ran |-> TRUE, key |-> cache_key]

\* PDF downloads: the Content-Type of the answer, the document's title and the
\* text of its pages
Downloads == {[title |-> <<"D1">>, text |-> <<"p1">>, ctype |-> "application/pdf"],
              [title |-> <<"D2">>, text |-> <<"p1", "p2">>, ctype |-> "application/pdf"],
              [title |-> <<"H">>, text |-> <<>>, ctype |-> "text/html"]}

\* 'pdf' in content_type.lower()
ContainsPdf(ctype) == ctype = "application/pdf"

\* url.lower().endswith('.pdf')
EndsWithPdf(url) == Len(url) > 0 /\ Lower(url[Len(url)]) = ".pdf"

Min(a, b) == IF a < b THEN a ELSE b

\* _read_pdf_url_impl that also caches the result it returns for a URL that is
\* no PDF
_read_pdf_url_impl_storeerr(c, url, page_limit, t, outcome) ==
    LET url2 == NormalizeUrl(url)
        cache_key == _make_key(<<PyStr(<<"pdf">>), PyStr(url2), PyInt(page_limit)>>, <<>>)
        got == SimpleCache_get(c, cache_key, t)
    IN  IF got.exc # "none"
        THEN [ret |-> ErrorResult("url", url2, "Failed to read PDF: ", got.exc),
              c |-> got.c, ran |-> FALSE, key |-> cache_key]
        ELSE IF Truthy(got.ret)
        THEN [ret |-> got.ret, c |-> got.c, ran |-> FALSE, key |-> cache_key]
        ELSE IF outcome.exc # "none"
        THEN [ret |-> ErrorResult("url", url2, "Failed to read PDF: ", outcome.exc),
              c |-> got.c, ran |-> TRUE, key |-> cache_key]
        ELSE IF ~ContainsPdf(outcome.data.ctype) /\ ~EndsWithPdf(url2)
        THEN [ret |-> ErrorResult("url", url2, "URL does not appear to be a PDF file", ""),
              c |-> SimpleCache_set(got.c, cache_key,
                        ErrorResult("url", url2, "URL does not appear to be a PDF file", ""),
                        None, t),
              ran |-> TRUE, key |-> cache_key]
        ELSE LET doc == outcome.data.text
                 result == [status |-> "success", url |-> url2,
                            metadata |-> [title |-> outcome.data.title,
                                          total_pages |-> Len(doc)],
                            full_text |-> doc,
                            pages |-> [i \in 1..Min(Len(doc), page_limit) |->
                                         [page |-> i, text |-> doc[i]]]]
             IN  [ret |-> result, c |-> SimpleCache_set(got.c, cache_key, result, None, t),
                  ran |-> TRUE, key |-> cache_key]

\* _read_pdf_url_impl(url, max_pages), max_pages written page_limit
_read_pdf_url_impl(c, url, page_limit, t, outcome) ==
    LET url2 == NormalizeUrl(url)
        cache_key == _make_key(<<PyStr(<<"pdf">>), PyStr(url2), PyInt(page_limit)>>, <<>>)
        got == SimpleCache_get(c, cache_key, t)
    IN  IF got.exc # "none"
        THEN [ret |-> ErrorResult("url", url2, "Failed to read PDF: ", got.exc),
              c |-> got.c, ran |-> FALSE, key |-> cache_key]
        ELSE IF Truthy(got.ret)
        THEN [ret |-> got.ret, c |-> got.c, ran |-> FALSE, key |-> cache_key]
        ELSE IF outcome.exc # "none"
        THEN [ret |-> ErrorResult("url", url2, "Failed to read PDF: ", outcome.exc),
              c |-> got.c, ran |-> TRUE, key |-> cache_key]
        ELSE IF ~ContainsPdf(outcome.data.ctype) /\ ~EndsWithPdf(url2)
        THEN [ret |-> ErrorResult("url", url2, "URL does not appear to be a PDF file", ""),
              c |-> got.c, ran |-> TRUE, key |-> cache_key]
        ELSE LET doc == outcome.data.text
                 result == [status |-> "success", url |-> url2,
                            metadata |-> [title |-> outcome.data.title,
                                          total_pages |-> Len(doc)],
                            full_text |-> doc,
                            pages |-> [i \in 1..Min(Len(doc), page_limit) |->
                                         [page |-> i, text |-> doc[i]]]]
             IN  [ret |-> result, c |-> SimpleCache_set(got.c, cache_key, result, None, t),
                  ran |-> TRUE, key |-> cache_key]

\* an 11-character video id
VideoIds == {"dQw4w9WgXcQ"}

\* (?:v=|/v/|youtu\.be/|/embed/)([a-zA-Z0-9_-]{11}), then ^([a-zA-Z0-9_-]{11})$
ExtractVideoId(video_url) ==
    LET at == {i \in 1..(Len(video_url) - 1) :
                 /\ video_url[i] \in {"v=", "/v/", "youtu.be/", "/embed/"}
                 /\ video_url[i + 1] \in VideoIds}
    IN  IF at # {}
        THEN PyStr(<<video_url[(CHOOSE i \in at : \A j \in at : i <= j) + 1]>>)
        ELSE IF Len(video_url) = 1 /\ video_url[1] \in VideoIds
        THEN PyStr(video_url)
        ELSE None

\* transcripts: the text of the segments
Transcripts == {[title |-> <<>>, text |-> <<"s1">>, ctype |-> "-"],
                [title |-> <<>>, text |-> <<"s1", "s2">>, ctype |-> "-"]}

\* _get_youtube_transcript_impl(video_url, language)
_get_youtube_transcript_impl(c, video_url, language, t, outcome) ==
    LET video_id == ExtractVideoId(video_url)
        cache_key == _make_key(<<PyStr(<<"youtube">>), video_id, PyStr(language)>>, <<>>)
        got == SimpleCache_get(c, cache_key, t)
    IN  IF video_id = None
        THEN [ret |-> [status |-> "error",
                       message |-> <<"Could not extract video ID from URL", "">>],
              c |-> c, ran |-> FALSE, key |-> None]
        ELSE IF got.exc # "none"
        THEN [ret |-> ErrorResult("url", video_url, "Failed to get transcript: ", got.exc),
              c |-> got.c, ran |-> FALSE, key |-> cache_key]
        ELSE IF Truthy(got.ret)
        THEN [ret |-> got.ret, c |-> got.c, ran |-> FALSE, key |-> cache_key]
        ELSE IF outcome.exc # "none"
        THEN [ret |-> ErrorResult("video_id", video_id.str, "Transcript error: ", outcome.exc),
              c |-> got.c, ran |-> TRUE, key |-> cache_key]
        ELSE LET result == [status |-> "success", video_id |-> video_id.str,
                            language |-> language,
                            full_text |-> outcome.data.text,
                            segments |-> outcome.data.text]
             IN  [ret |-> result, c |-> SimpleCache_set(got.c, cache_key, result, None, t),
                  ran |-> TRUE, key |-> cache_key]

(***************************************************************************)
(* Tool calls, each run from start to end.                                 *)
(***************************************************************************)
MarkdownUrls == {<<"a.com", "/x">>}

MaxLengths == {10000}

PdfUrls == {<<"a.com", "/doc">>, <<"https://", "a.com", "/doc">>}

MaxPagesArgs == {20}

VideoUrls == {<<"dQw4w9WgXcQ">>, <<"https://", "youtu.be/", "dQw4w9WgXcQ">>,
              <<"https://", "a.com", "/clip">>}

Languages == {<<"en">>}

CachedTools == {"fetch_as_markdown", "read_pdf_url", "get_youtube_transcript"}

\* a tool call that returned r: the cache afterwards, the call as observed, and
\* the history of the successful calls
Called(op, args, r) ==
    /\ cache' = r.c
    /\ call' = [op |-> op, args |-> args, key |-> r.key, ret |-> r.ret, ran |-> r.ran]
    /\ memo' = IF r.ret.status = "success"
               THEN DictSet(memo, <<op, args>>,
                            [ret |-> r.ret, at |-> r.c._timestamps[r.key]])
               ELSE memo
    /\ UNCHANGED <<now, exceptTool>>

fetch_as_markdown(url, max_length, outcome) ==
    Called("fetch_as_markdown", <<PyStr(url), PyInt(max_length)>>,
           _fetch_as_markdown_impl(cache, url, max_length, now, outcome))

read_pdf_url(url, page_limit, outcome) ==
    Called("read_pdf_url", <<PyStr(url), PyInt(page_limit)>>,
           _read_pdf_url_impl(cache, url, page_limit, now, outcome))

get_youtube_transcript(video_url, language, outcome) ==
    Called("get_youtube_transcript", <<PyStr(video_url), PyStr(language)>>,
           _get_youtube_transcript_impl(cache, video_url, language, now, outcome))

ClearCacheTool ==
    /\ cache' = clear_cache(cache).c
    /\ call' = [NoCall EXCEPT !.op = "clear_cache", !.ret = clear_cache(cache).ret]
    /\ memo' = EmptyDict
    /\ UNCHANGED <<now, exceptTool>>

ToolTick(d) ==
    /\ now + d <= MaxToolTime
    /\ now' = now + d
    /\ call' = [NoCall EXCEPT !.op = "tick"]
    /\ UNCHANGED <<cache, memo, exceptTool>>

Outcomes(answers) == {Raises(e) : e \in Exceptions} \cup {Returns(d) : d \in answers}

ToolNext ==
    \/ \E url \in MarkdownUrls, n \in MaxLengths, o \in Outcomes(Pages) :
          fetch_as_markdown(url, n, o)
    \/ \E url \in PdfUrls, n \in MaxPagesArgs, o \in Outcomes(Downloads) :
          read_pdf_url(url, n, o)
    \/ \E v \in VideoUrls, l \in Languages, o \in Outcomes(Transcripts) :
          get_youtube_transcript(v, l, o)
    \/ ClearCacheTool
    \/ \E d \in TickSteps : ToolTick(d)

ToolSpec == Init /\ [][ToolNext]_vars


(***************************************************************************)
(* crawl_website.  One step per iteration of the while loop; what the      *)
(* request for a page answers (an exception, or a page with its anchors)   *)
(* is the iteration's outcome, chosen by the environment.                  *)
(***************************************************************************)
\* urlparse raises ValueError on a netloc with an unmatched bracket
UrlRaises(url) == \E i \in DOMAIN url : url[i] = "["

\* urlparse(url).netloc of an http(s) URL: the piece after the scheme
netloc(url) == IF startswith_http(url) /\ Len(url) >= 2 THEN url[2] ELSE ""

HasScheme(href) ==
    Len(href) > 0 /\ href[1] \in {"http://", "https://", "mailto:", "tel:"}

\* the URL up to its fragment
StripFragment(url) ==
    LET at == {i \in DOMAIN url : url[i] = "#"}
    IN  IF at = {} THEN url
        ELSE SubSeq(url, 1, (CHOOSE i \in at : \A j \in at : i <= j) - 1)

\* urljoin(base, href) for an http(s) base: an href with a scheme stands as it
\* is, an empty one gives the base, a fragment replaces the base's fragment (an
\* empty fragment, href "#", leaves none), a path that starts with "/" replaces
\* the base's path
urljoin(base, href) ==
    IF href = <<>> THEN base
    ELSE IF HasScheme(href) THEN href
    ELSE IF href = <<"#">> THEN StripFragment(base)
    ELSE IF href[1] = "#" THEN StripFragment(base) \o href
    ELSE SubSeq(base, 1, 2) \o href

skip_patterns == {".pdf", ".jpg", ".png", ".gif", ".css", ".js", "#", "mailto:", "tel:"}

\* any(p in full_url.lower() for p in skip_patterns); the pieces of a URL are cut
\* so that a pattern that occurs in it is a piece of it
SkipUrl(url) == \E i \in DOMAIN url : Lower(url[i]) \in skip_patterns

\* the loop over the anchors without the test of the domain
RECURSIVE FindLinks_anydomain(_, _, _, _, _, _, _)
FindLinks_anydomain(anchors, i, current_url, sd, bd, vis, tv) ==
    IF i > Len(anchors) THEN tv
    ELSE IF UrlRaises(anchors[i]) THEN tv
    ELSE LET full_url == urljoin(current_url, anchors[i])
         IN  IF ~startswith_http(full_url)
             THEN FindLinks_anydomain(anchors, i + 1, current_url, sd, bd, vis, tv)
             ELSE IF SkipUrl(full_url)
             THEN FindLinks_anydomain(anchors, i + 1, current_url, sd, bd, vis, tv)
             ELSE IF full_url \notin vis /\ full_url \notin Range(tv)
             THEN FindLinks_anydomain(anchors, i + 1, current_url, sd, bd, vis,
                            Append(tv, full_url))
             ELSE FindLinks_anydomain(anchors, i + 1, current_url, sd, bd, vis, tv)

\* the loop over the anchors without the test of skip_patterns
RECURSIVE FindLinks_noskip(_, _, _, _, _, _, _)
FindLinks_noskip(anchors, i, current_url, sd, bd, vis, tv) ==
    IF i > Len(anchors) THEN tv
    ELSE IF UrlRaises(anchors[i]) THEN tv
    ELSE LET full_url == urljoin(current_url, anchors[i])
         IN  IF ~startswith_http(full_url)
             THEN FindLinks_noskip(anchors, i + 1, current_url, sd, bd, vis, tv)
             ELSE IF sd /\ netloc(full_url) # bd
             THEN FindLinks_noskip(anchors, i + 1, current_url, sd, bd, vis, tv)
             ELSE IF full_url \notin vis /\ full_url \notin Range(tv)
             THEN FindLinks_noskip(anchors, i + 1, current_url, sd, bd, vis,
                            Append(tv, full_url))
             ELSE FindLinks_noskip(anchors, i + 1, current_url, sd, bd, vis, tv)

\* the loop over the anchors with to_visit.insert(0, full_url)
RECURSIVE FindLinks_prepend(_, _, _, _, _, _, _)
FindLinks_prepend(anchors, i, current_url, sd, bd, vis, tv) ==
    IF i > Len(anchors) THEN tv
    ELSE IF UrlRaises(anchors[i]) THEN tv
    ELSE LET full_url == urljoin(current_url, anchors[i])
         IN  IF ~startswith_http(full_url)
             THEN FindLinks_prepend(anchors, i + 1, current_url, sd, bd, vis, tv)
             ELSE IF sd /\ netloc(full_url) # bd
             THEN FindLinks_prepend(anchors, i + 1, current_url, sd, bd, vis, tv)
             ELSE IF SkipUrl(full_url)
             THEN FindLinks_prepend(anchors, i + 1, current_url, sd, bd, vis, tv)
             ELSE IF full_url \notin vis /\ full_url \notin Range(tv)
             THEN FindLinks_prepend(anchors, i + 1, current_url, sd, bd, vis,
                            <<full_url>> \o tv)
             ELSE FindLinks_prepend(anchors, i + 1, current_url, sd, bd, vis, tv)

\* the loop over the anchors that appends a URL whenever to_visit does not hold
\* it, visited or not
RECURSIVE FindLinks_novisited(_, _, _, _, _, _, _)
FindLinks_novisited(anchors, i, current_url, sd, bd, vis, tv) ==
    IF i > Len(anchors) THEN tv
    ELSE IF UrlRaises(anchors[i]) THEN tv
    ELSE LET full_url == urljoin(current_url, anchors[i])
         IN  IF ~startswith_http(full_url)
             THEN FindLinks_novisited(anchors, i + 1, current_url, sd, bd, vis, tv)
             ELSE IF sd /\ netloc(full_url) # bd
             THEN FindLinks_novisited(anchors, i + 1, current_url, sd, bd, vis, tv)
             ELSE IF SkipUrl(full_url)
             THEN FindLinks_novisited(anchors, i + 1, current_url, sd, bd, vis, tv)
             ELSE IF full_url \notin Range(tv)
             THEN FindLinks_novisited(anchors, i + 1, current_url, sd, bd, vis,
                                      Append(tv, full_url))
             ELSE FindLinks_novisited(anchors, i + 1, current_url, sd, bd, vis, tv)

\* the for loop over the anchors of the page at current_url, from anchor i on:
\* to_visit afterwards.  An exception (urljoin or urlparse on a malformed href)
\* ends the loop: the except clause of the iteration continues the while loop.
RECURSIVE FindLinks(_, _, _, _, _, _, _)
FindLinks(anchors, i, current_url, sd, bd, vis, tv) ==
    IF i > Len(anchors) THEN tv
    ELSE IF UrlRaises(anchors[i]) THEN tv
    ELSE LET full_url == urljoin(current_url, anchors[i])
         IN  IF ~startswith_http(full_url)
             THEN FindLinks(anchors, i + 1, current_url, sd, bd, vis, tv)
             ELSE IF sd /\ netloc(full_url) # bd
             THEN FindLinks(anchors, i + 1, current_url, sd, bd, vis, tv)
             ELSE IF SkipUrl(full_url)
             THEN FindLinks(anchors, i + 1, current_url, sd, bd, vis, tv)
             ELSE IF full_url \notin vis /\ full_url \notin Range(tv)
             THEN FindLinks(anchors, i + 1, current_url, sd, bd, vis,
                            Append(tv, full_url))
             ELSE FindLinks(anchors, i + 1, current_url, sd, bd, vis, tv)

\* while to_visit and len(pages) < max_pages, written with <=
LoopCondition_le(tv, pgs, n) == tv # <<>> /\ Len(pgs) <= n

\* while to_visit: the loop without the page budget
LoopCondition_nobudget(tv, pgs, n) == tv # <<>>

\* while to_visit and len(pages) < max_pages
LoopCondition(tv, pgs, n) == tv # <<>> /\ Len(pgs) < n

Seeds == {<<"a.com">>, <<"https://", "a.com", "/p1">>, <<"https://", "[">>}

Hrefs == {<<"/p1">>, <<"/p2">>, <<"/p3">>, <<"/p2", "#", "s">>, <<"#", "top">>, <<"#">>,
          <<"/i", ".jpg">>, <<"/s", ".css">>, <<"/j", ".js">>,
          <<"https://", "b.org", "/q">>, <<"mailto:", "x">>, <<"tel:", "1">>,
          <<"/f", ".PDF">>, <<"/d", ".js", "on">>, <<"http://", "[">>}

\* the lists of anchors a page can hold
AnchorLists == SeqsUpTo(Hrefs, MaxLinks)

\* the targets of the anchors of the page at current_url that pass the three
\* filters of the loop over the anchors (the anchors urljoin raises on set aside)
WellFormed(anchors) == SelectSeq(anchors, LAMBDA href : ~UrlRaises(href))

SurvivingLinks(anchors, current_url, sd, bd) ==
    Range(FindLinks(WellFormed(anchors), 1, current_url, sd, bd, {}, <<>>))

\* the same, of the anchors the loop reaches: those up to the first one urljoin
\* raises on
KeptLinks(anchors, current_url, sd, bd) ==
    Range(FindLinks(anchors, 1, current_url, sd, bd, {}, <<>>))

\* what the loop over the anchors does with each anchor: "raise" (urljoin
\* raises, which ends the loop), "unseen" (after the loop has ended),
\* "non_http", "other_domain" and "skip" (the continue of each filter), "kept"
Verdicts(anchors, current_url, sd, bd) ==
    [i \in 1..Len(anchors) |->
        IF \E j \in 1..(i - 1) : UrlRaises(anchors[j]) THEN "unseen"
        ELSE IF UrlRaises(anchors[i]) THEN "raise"
        ELSE LET full_url == urljoin(current_url, anchors[i])
             IN  IF ~startswith_http(full_url) THEN "non_http"
                 ELSE IF sd /\ netloc(full_url) # bd THEN "other_domain"
                 ELSE IF SkipUrl(full_url) THEN "skip"
                 ELSE "kept"]

\* an iteration that leaves visited as it is
visited_add_noadd(vis, current_url) == vis

\* visited.add(current_url)
visited_add(vis, current_url) == vis \cup {current_url}

\* what the request for a page and the parse of its body can raise
CrawlExceptions == Exceptions \cup {"ParserError"}

\* crawl_website(url, max_pages, same_domain), up to the head of the while loop
CrawlStart(url, n, sd) ==
    /\ crawl_pc \in {"idle", "done"}
    /\ start_url' = NormalizeUrl(url)
    /\ max_pages' = n
    /\ same_domain' = sd
    /\ visited' = {}
    /\ pages' = <<>>
    /\ fetched' = <<>>
    /\ links' = EmptyDict
    /\ kept' = EmptyDict
    /\ step' = NoStep
    /\ IF UrlRaises(NormalizeUrl(url))
       THEN /\ crawl_pc' = "done"
            /\ base_domain' = ""
            /\ to_visit' = <<>>
            /\ enq' = <<>>
            /\ crawl_ret' = ErrorResult("url", NormalizeUrl(url), "Crawl failed: ",
                                        "ValueError")
       ELSE /\ crawl_pc' = "loop"
            /\ base_domain' = netloc(NormalizeUrl(url))
            /\ to_visit' = <<NormalizeUrl(url)>>
            /\ enq' = <<NormalizeUrl(url)>>
            /\ crawl_ret' = None
    /\ UNCHANGED exceptCrawl

\* one iteration of the while loop
Iteration(outcome) ==
    /\ crawl_pc = "loop"
    /\ LoopCondition(to_visit, pages, max_pages)
    /\ LET current_url == Head(to_visit)
           rest == Tail(to_visit)
           found == FindLinks(outcome.anchors, 1, current_url, same_domain,
                              base_domain, visited_add(visited, current_url), rest)
           added == SelectSeq(found, LAMBDA u : u \notin Range(rest))
       IN  IF current_url \in visited
           THEN /\ to_visit' = rest
                /\ step' = [url |-> current_url, exc |-> "-", verdicts |-> <<>>,
                            added |-> <<>>]
                /\ UNCHANGED <<visited, pages, fetched, enq, links, kept>>
           ELSE /\ visited' = visited_add(visited, current_url)
                /\ fetched' = Append(fetched, [url |-> current_url,
                                               ok |-> outcome.exc = "none"])
                /\ IF outcome.exc # "none"
                   THEN /\ to_visit' = rest
                        /\ step' = [url |-> current_url, exc |-> outcome.exc,
                                    verdicts |-> <<>>, added |-> <<>>]
                        /\ UNCHANGED <<pages, enq, links, kept>>
                   ELSE /\ pages' = Append(pages, [url |-> current_url,
                                                   title |-> outcome.data.title,
                                                   content_preview |-> outcome.data.text])
                        /\ to_visit' = found
                        /\ enq' = enq \o added
                        /\ links' = DictSet(links, current_url,
                                            SurvivingLinks(outcome.anchors, current_url,
                                                           same_domain, base_domain))
                        /\ kept' = DictSet(kept, current_url,
                                           KeptLinks(outcome.anchors, current_url,
                                                     same_domain, base_domain))
                        /\ step' = [url |-> current_url, exc |-> "none",
                                    verdicts |-> Verdicts(outcome.anchors, current_url,
                                                          same_domain, base_domain),
                                    added |-> added]
    /\ UNCHANGED <<crawl_pc, start_url, max_pages, same_domain, base_domain, crawl_ret>>

CrawlStep(outcome) ==
    /\ Iteration(outcome)
    /\ UNCHANGED exceptCrawl

\* the result, as an error when a request of the crawl has failed
CrawlReturn_failerr ==
    /\ crawl_pc = "loop"
    /\ ~LoopCondition(to_visit, pages, max_pages)
    /\ crawl_pc' = "done"
    /\ crawl_ret' = IF \E i \in DOMAIN fetched : ~fetched[i].ok
                    THEN ErrorResult("url", start_url, "Crawl failed: ", "ConnectError")
                    ELSE [status |-> "success", start_url |-> start_url,
                          pages_crawled |-> Len(pages), pages |-> pages]
    /\ UNCHANGED <<start_url, max_pages, same_domain, base_domain, visited, to_visit,
                   pages, fetched, enq, links, kept, step>>
    /\ UNCHANGED exceptCrawl

\* the result, as an error when no page was recorded
CrawlReturn_emptyerr ==
    /\ crawl_pc = "loop"
    /\ ~LoopCondition(to_visit, pages, max_pages)
    /\ crawl_pc' = "done"
    /\ crawl_ret' = IF pages = <<>>
                    THEN ErrorResult("url", start_url, "Crawl failed: ", "ConnectError")
                    ELSE [status |-> "success", start_url |-> start_url,
                          pages_crawled |-> Len(pages), pages |-> pages]
    /\ UNCHANGED <<start_url, max_pages, same_domain, base_domain, visited, to_visit,
                   pages, fetched, enq, links, kept, step>>
    /\ UNCHANGED exceptCrawl

\* the loop has ended: the result
CrawlReturn ==
    /\ crawl_pc = "loop"
    /\ ~LoopCondition(to_visit, pages, max_pages)
    /\ crawl_pc' = "done"
    /\ crawl_ret' = [status |-> "success", start_url |-> start_url,
                     pages_crawled |-> Len(pages), pages |-> pages]
    /\ UNCHANGED <<start_url, max_pages, same_domain, base_domain, visited, to_visit,
                   pages, fetched, enq, links, kept, step>>
    /\ UNCHANGED exceptCrawl

CrawlPage == [title |-> <<"T">>, text |-> <<"t">>, ctype |-> "text/html"]

CrawlOutcomes ==
    {[exc |-> e, data |-> NoData, anchors |-> <<>>] : e \in CrawlExceptions}
        \cup {[exc |-> "none", data |-> CrawlPage, anchors |-> a] : a \in AnchorLists}

CrawlNext ==
    \/ \E url \in Seeds, n \in 0..MaxBudget, sd \in BOOLEAN : CrawlStart(url, n, sd)
    \/ \E o \in CrawlOutcomes : CrawlStep(o)
    \/ CrawlReturn

CrawlSpec == Init /\ [][CrawlNext]_vars

\* one iteration of the while loop, the hrefs of the page's anchors observed
PageStep(outcome) ==
    /\ Iteration(outcome)
    /\ page' = outcome.anchors
    /\ UNCHANGED exceptPage

\* hrefs of each kind the filters of the loop over the anchors tell apart
KindHrefs == {<<"/p1">>, <<"/p2", "#", "s">>, <<"#", "top">>, <<"#">>, <<"/i", ".jpg">>,
              <<"/j", ".js">>, <<"https://", "b.org", "/q">>, <<"mailto:", "x">>,
              <<"/f", ".PDF">>, <<"/d", ".js", "on">>}

KindOutcomes ==
    {o \in CrawlOutcomes : \A i \in DOMAIN o.anchors : o.anchors[i] \in KindHrefs}

PageNext ==
    \/ \E url \in Seeds, n \in 1..2, sd \in BOOLEAN : CrawlStart(url, n, sd)
    \/ \E o \in KindOutcomes : PageStep(o)
    \/ CrawlReturn

PageSpec == Init /\ [][PageNext]_vars

\* the crawl over pages whose anchors are paths of the site, a URL of another
\* site or a malformed href.  Every request has a timeout
\* (httpx.Client(timeout=15.0)): the iteration under way ends, with a page or
\* with an exception, and the function goes on to its next statement.
PathHrefs == {<<"/p1">>, <<"/p2">>, <<"/p3">>, <<"https://", "b.org", "/q">>,
              <<"http://", "[">>}

PathOutcomes ==
    {o \in CrawlOutcomes : \A i \in DOMAIN o.anchors : o.anchors[i] \in PathHrefs}

CrawlFairNext ==
    \/ \E url \in Seeds, n \in 0..MaxBudget, sd \in BOOLEAN : CrawlStart(url, n, sd)
    \/ \E o \in PathOutcomes : CrawlStep(o)
    \/ CrawlReturn

CrawlFairSpec ==
    /\ Init /\ [][CrawlFairNext]_vars
    /\ WF_vars(\E o \in PathOutcomes : CrawlStep(o))
    /\ WF_vars(CrawlReturn)


(***************************************************************************)
(* The other tools.  Each is one external call (a search, a request, a     *)
(* browser session) and the reshaping of what it answers, inside a try     *)
(* whose except clauses turn an exception into an error result.  What the  *)
(* caller of a tool gets is the JSON result returned, or the exception     *)
(* that left the function: [raised |-> e].                                 *)
(***************************************************************************)
Propagates(e) == [raised |-> e]

\* what DDGS() and its searches raise
DdgsExceptions == {"DDGSException", "TimeoutException"}

\* what a request, raise_for_status and response.json() or the reading of the
\* decoded answer raise
JsonExceptions == Exceptions \cup {"JSONDecodeError", "TypeError"}

\* what the import of playwright and a browser session raise
BrowserExceptions == {"ImportError", "TimeoutError"}

Queries == {<<"q1">>, <<"q2">>}

\* what a search answers: a list of results
Hits == {<<>>, <<[title |-> <<"t1">>, href |-> <<"u1">>, body |-> <<"b1">>]>>}

\* the results reshaped: title, url and snippet of each (the tools differ in the
\* names of the fields they copy)
FormatResults(results) ==
    [i \in DOMAIN results |-> [title |-> results[i].title, url |-> results[i].href,
                               snippet |-> results[i].body]]

\* the body shared by search_web, search_news, search_images, search_youtube
\* and search_maps
DdgsSearch(prefix, none_found, query, outcome) ==
    IF outcome.exc # "none"
    THEN ErrorResult("query", query, prefix, outcome.exc)
    ELSE IF outcome.data = <<>>
    THEN [status |-> "success", results |-> <<>>, message |-> <<none_found>>]
    ELSE [status |-> "success", query |-> query, results |-> FormatResults(outcome.data)]

_search_web_impl(query, max_results, outcome) ==
    DdgsSearch("Search failed: ", "No results found.", query, outcome)

_search_news_impl(query, max_results, outcome) ==
    DdgsSearch("News search failed: ", "No news found.", query, outcome)

_search_images_impl(query, max_results, outcome) ==
    DdgsSearch("Image search failed: ", "No images found.", query, outcome)

_search_youtube_impl(query, max_results, outcome) ==
    DdgsSearch("YouTube search failed: ", "No videos found.", query, outcome)

_search_maps_impl(query, max_results, outcome) ==
    DdgsSearch("Maps search failed: ", "No places found.", query, outcome)

\* text[:max_length] + "... [truncated]" when it is longer
TruncateText(text, max_length) ==
    IF Len(text) > max_length
    THEN SubSeq(text, 1, max_length) \o <<"... [truncated]">>
    ELSE text

\* _fetch_webpage_impl with the except clause for httpx.HTTPStatusError only
_fetch_webpage_impl_httponly(url, max_length, outcome) ==
    LET url2 == NormalizeUrl(url)
    IN  IF outcome.exc = "HTTPStatusError"
        THEN ErrorResult("url", url2, "HTTP error ", outcome.exc)
        ELSE IF outcome.exc # "none"
        THEN Propagates(outcome.exc)
        ELSE [status |-> "success", url |-> url2, title |-> outcome.data.title,
              description |-> <<>>,
              content |-> TruncateText(outcome.data.text, max_length)]

_fetch_webpage_impl(url, max_length, outcome) ==
    LET url2 == NormalizeUrl(url)
    IN  IF outcome.exc = "HTTPStatusError"
        THEN ErrorResult("url", url2, "HTTP error ", outcome.exc)
        ELSE IF outcome.exc # "none"
        THEN ErrorResult("url", url2, "Failed to fetch webpage: ", outcome.exc)
        ELSE [status |-> "success", url |-> url2, title |-> outcome.data.title,
              description |-> <<>>,
              content |-> TruncateText(outcome.data.text, max_length)]

\* the import of playwright comes before the scheme is added to url
_fetch_webpage_js_impl(url, max_length, wait_time, outcome) ==
    LET url2 == NormalizeUrl(url)
    IN  IF outcome.exc = "ImportError"
        THEN ErrorResult("url", url, "Failed to fetch webpage: ", outcome.exc)
        ELSE IF outcome.exc # "none"
        THEN ErrorResult("url", url2, "Failed to fetch webpage: ", outcome.exc)
        ELSE [status |-> "success", url |-> url2, title |-> outcome.data.title,
              description |-> <<>>,
              content |-> TruncateText(outcome.data.text, max_length)]

\* output_path or "screenshot_<domain>.png"
ScreenshotPath(url2, output_path) ==
    IF output_path = None THEN <<"screenshot_", netloc(url2), ".png">> ELSE output_path.str

_take_screenshot_impl(url, full_page, output_path, outcome) ==
    LET url2 == NormalizeUrl(url)
    IN  IF outcome.exc = "ImportError"
        THEN ErrorResult("url", url, "Screenshot failed: ", outcome.exc)
        ELSE IF outcome.exc # "none"
        THEN ErrorResult("url", url2, "Screenshot failed: ", outcome.exc)
        ELSE [status |-> "success", url |-> url2,
              saved_to |-> ScreenshotPath(url2, output_path),
              full_page |-> full_page, base64_preview |-> outcome.data.text]

RECURSIVE Dedupe(_, _)
Dedupe(urls, seen) ==
    IF urls = <<>> THEN <<>>
    ELSE IF Head(urls) \in seen THEN Dedupe(Tail(urls), seen)
    ELSE <<Head(urls)>> \o Dedupe(Tail(urls), seen \cup {Head(urls)})

\* the anchors of the page as absolute http(s) URLs, of the page's domain only
\* when same_domain_only, each once; urljoin raising on an anchor fails the call
_extract_links_impl(url, same_domain_only, outcome) ==
    LET url2 == NormalizeUrl(url)
        base_dom == netloc(url2)
        anchors == outcome.data.anchors
        full_urls == [i \in DOMAIN anchors |-> urljoin(url2, anchors[i])]
        wanted == SelectSeq(full_urls,
                            LAMBDA u : /\ startswith_http(u)
                                       /\ (same_domain_only => netloc(u) = base_dom))
        links_found == Dedupe(wanted, {})
    IN  IF outcome.exc # "none"
        THEN ErrorResult("url", url2, "Failed to extract links: ", outcome.exc)
        ELSE IF UrlRaises(url2) \/ \E i \in DOMAIN anchors : UrlRaises(anchors[i])
        THEN ErrorResult("url", url2, "Failed to extract links: ", "ValueError")
        ELSE [status |-> "success", source_url |-> url2,
              total_links |-> Len(links_found), links |-> links_found]

_get_page_metadata_impl(url, outcome) ==
    LET url2 == NormalizeUrl(url)
    IN  IF outcome.exc # "none"
        THEN ErrorResult("url", url2, "Failed to extract metadata: ", outcome.exc)
        ELSE [status |-> "success", url |-> url2, title |-> outcome.data.title,
              description |-> <<>>, keywords |-> <<>>, canonical_url |-> <<>>,
              favicon |-> <<>>, opengraph |-> EmptyDict, twitter_card |-> EmptyDict]

\* a Python list and a Python bool, as values
PyList(items) == [list |-> items]

PyBool(b) == [bool |-> b]

\* extract.split('. ')[:sentences], joined again, when sentences and extract
\* are truthy; the extract is modelled as the sequence of its sentences
TruncateExtract(extract, sentences) ==
    IF sentences # 0 /\ extract # <<>>
    THEN SubSeq(extract, 1, Min(Len(extract), sentences))
    ELSE extract

\* the summary request answers 404: the opensearch request, and not_found with
\* the suggestions it lists when it lists any
WikipediaNotFound(query, search) ==
    IF search.exc # "none"
    THEN ErrorResult("query", query, "Wikipedia search failed: ", search.exc)
    ELSE IF Len(search.data) >= 4 /\ search.data[2] # <<>>
    THEN [status |-> "not_found", query |-> query,
          message |-> <<"Article not found. Did you mean:">>,
          suggestions |-> [i \in 1..Min(Len(search.data[2]), Len(search.data[4])) |->
                             [title |-> search.data[2][i], url |-> search.data[4][i]]]]
    ELSE [status |-> "not_found", query |-> query,
          message |-> <<"No Wikipedia article found for this query.">>]

_search_wikipedia_impl(query, sentences, outcome) ==
    IF outcome.exc # "none"
    THEN ErrorResult("query", query, "Wikipedia search failed: ", outcome.exc)
    ELSE IF outcome.status_code = 404
    THEN WikipediaNotFound(query, outcome.search)
    ELSE IF outcome.status_code >= 400
    THEN ErrorResult("query", query, "Wikipedia search failed: ", "HTTPStatusError")
    ELSE [status |-> "success", title |-> outcome.data.title,
          description |-> <<>>,
          extract |-> TruncateExtract(outcome.data.text, sentences),
          url |-> <<>>, thumbnail |-> <<>>]

_get_weather_impl(location, outcome) ==
    IF outcome.exc # "none"
    THEN ErrorResult("location", location, "Weather lookup failed: ", outcome.exc)
    ELSE [status |-> "success",
          location |-> [name |-> outcome.data.title, region |-> <<>>, country |-> <<>>],
          current |-> [condition |-> outcome.data.text]]

\* the error result for a responseStatus other than 200 carries the status and
\* the message only
_translate_text_impl(text, target_lang, source_lang, outcome) ==
    LET source == IF source_lang = <<"auto">> THEN outcome.detected ELSE source_lang
    IN  IF outcome.exc # "none"
        THEN ErrorResult("text", text, "Translation failed: ", outcome.exc)
        ELSE IF outcome.responseStatus = 200
        THEN [status |-> "success", original_text |-> text,
              translated_text |-> outcome.data.text,
              source_language |-> source, target_language |-> target_lang]
        ELSE [status |-> "error", message |-> <<outcome.responseDetails>>]

\* the loop over the queries that ends at the first search that fails
RECURSIVE BatchLoop_abort(_, _, _, _)
BatchLoop_abort(queries, outcomes, i, all_results) ==
    IF i > Len(queries) THEN all_results
    ELSE IF outcomes[i].exc # "none"
    THEN DictSet(all_results, queries[i], [error |-> outcomes[i].exc])
    ELSE BatchLoop_abort(queries, outcomes, i + 1,
                         DictSet(all_results, queries[i],
                                 PyList(FormatResults(outcomes[i].data))))

\* the loop over queries[:10], from query i on: all_results afterwards.  The
\* queries are the keys of a dict: a later occurrence of a query replaces what
\* an earlier one left.
RECURSIVE BatchLoop(_, _, _, _)
BatchLoop(queries, outcomes, i, all_results) ==
    IF i > Len(queries) THEN all_results
    ELSE BatchLoop(queries, outcomes, i + 1,
                   DictSet(all_results, queries[i],
                           IF outcomes[i].exc # "none"
                           THEN [error |-> outcomes[i].exc]
                           ELSE PyList(FormatResults(outcomes[i].data))))

\* for query in queries[:10]
BatchLimit == 10

Processed(queries) == SubSeq(queries, 1, Min(Len(queries), BatchLimit))

\* ctor is what DDGS() raises; outcomes are the answers of the searches, one
\* for each query processed
_batch_search_impl(queries, max_results_per_query, ctor, outcomes) ==
    IF ctor # "none"
    THEN [status |-> "error", message |-> <<"Batch search failed: ", ctor>>]
    ELSE [status |-> "success", total_queries |-> Len(queries),
          results |-> BatchLoop(Processed(queries), outcomes, 1, EmptyDict)]

\* the while loop of _crawl_website_impl run to its end: pages afterwards.
\* outcomes are the answers to the requests, in the order they are made; a
\* request after the last of them fails.
RECURSIVE CrawlLoop(_, _, _, _, _, _, _)
CrawlLoop(tv, vis, pgs, n, sd, bd, outcomes) ==
    IF ~LoopCondition(tv, pgs, n) THEN pgs
    ELSE LET current_url == Head(tv)
             outcome == Head(outcomes)
         IN  IF current_url \in vis
             THEN CrawlLoop(Tail(tv), vis, pgs, n, sd, bd, outcomes)
             ELSE IF outcomes = <<>> \/ outcome.exc # "none"
             THEN CrawlLoop(Tail(tv), visited_add(vis, current_url), pgs, n, sd, bd,
                            IF outcomes = <<>> THEN <<>> ELSE Tail(outcomes))
             ELSE CrawlLoop(FindLinks(outcome.anchors, 1, current_url, sd, bd,
                                      visited_add(vis, current_url), Tail(tv)),
                            visited_add(vis, current_url),
                            Append(pgs, [url |-> current_url,
                                         title |-> outcome.data.title,
                                         content_preview |-> outcome.data.text]),
                            n, sd, bd, Tail(outcomes))

\* _crawl_website_impl(url, max_pages, same_domain), max_pages written n
_crawl_website_impl(url, n, sd, outcomes) ==
    LET url2 == NormalizeUrl(url)
        pgs == CrawlLoop(<<url2>>, {}, <<>>, n, sd, netloc(url2), outcomes)
    IN  IF UrlRaises(url2)
        THEN ErrorResult("url", url2, "Crawl failed: ", "ValueError")
        ELSE [status |-> "success", start_url |-> url2,
              pages_crawled |-> Len(pgs), pages |-> pgs]

(***************************************************************************)
(* Any tool of the server called, each call run from start to end.         *)
(***************************************************************************)
MaxQueries == 2

MaxRequests == 2

MaxResults == {5}

WebUrls == {<<"a.com">>, <<"https://", "a.com", "/p1">>}

Sentences == {0, 1}

Articles == {[title |-> <<"A">>, text |-> <<"s1", "s2">>, ctype |-> "-"]}

\* what the opensearch request answers: [query, titles, descriptions, urls]
Suggestions == {<<>>, <<<<"q1">>, <<>>, <<>>, <<>>>>,
                <<<<"q1">>, <<"Q1">>, <<"">>, <<"w/Q1">>>>}

WikipediaOutcomes ==
    {[exc |-> e, status_code |-> 0, data |-> NoData, search |-> Returns(<<>>)] :
        e \in JsonExceptions}
      \cup {[exc |-> "none", status_code |-> 200, data |-> d, search |-> Returns(<<>>)] :
              d \in Articles}
      \cup {[exc |-> "none", status_code |-> 500, data |-> NoData,
             search |-> Returns(<<>>)]}
      \cup {[exc |-> "none", status_code |-> 404, data |-> NoData, search |-> sr] :
              sr \in {Raises(e) : e \in JsonExceptions}
                       \cup {Returns(d) : d \in Suggestions}}

Locations == {<<"Oslo">>}

Reports == {[title |-> <<"Oslo">>, text |-> <<"Sunny">>, ctype |-> "-"]}

Texts == {<<"hola">>}

LangCodes == {<<"en">>, <<"auto">>}

TranslateOutcomes ==
    {[exc |-> e, responseStatus |-> 0, responseDetails |-> "", detected |-> <<"en">>,
      data |-> NoData] : e \in JsonExceptions}
      \cup {[exc |-> "none", responseStatus |-> 200, responseDetails |-> "",
             detected |-> <<"es">>,
             data |-> [title |-> <<>>, text |-> <<"hello">>, ctype |-> "-"]],
            [exc |-> "none", responseStatus |-> 403, responseDetails |-> "INVALID LANGUAGE PAIR",
             detected |-> <<"en">>, data |-> NoData]}

SearchOutcomes == {[exc |-> e, data |-> <<>>] : e \in DdgsExceptions}
                    \cup {[exc |-> "none", data |-> h] : h \in Hits}

QueryLists == SeqsUpTo(Queries, MaxQueries)

LinkPages == {[title |-> <<"T">>, text |-> <<"t">>, ctype |-> "text/html", anchors |-> a] :
                a \in {<<>>, <<<<"/p1">>, <<"/p1">>, <<"https://", "b.org", "/q">>>>,
                       <<<<"http://", "[">>>>}}

LinkOutcomes ==
    {[exc |-> e, data |-> [title |-> <<>>, text |-> <<>>, ctype |-> "-", anchors |-> <<>>]] :
        e \in Exceptions}
      \cup {Returns(d) : d \in LinkPages}

BrowserOutcomes == {Raises(e) : e \in BrowserExceptions} \cup {Returns(d) : d \in Pages}

CrawlAnswers ==
    {[exc |-> "ConnectError", data |-> NoData, anchors |-> <<>>]}
      \cup {[exc |-> "none", data |-> CrawlPage, anchors |-> a] :
              a \in {<<>>, <<<<"/p1">>, <<"/p2">>>>, <<<<"http://", "[">>, <<"/p1">>>>}}

\* a call of a tool that keeps nothing in the cache, as observed
Observed(op, args, ret) ==
    [op |-> op, args |-> args, key |-> None, ret |-> ret, ran |-> TRUE]

search_web(query, max_results, outcome) ==
    /\ call' = Observed("search_web", <<PyStr(query), PyInt(max_results)>>,
                        _search_web_impl(query, max_results, outcome))
    /\ UNCHANGED <<cache, now, memo, exceptTool>>

search_news(query, max_results, outcome) ==
    /\ call' = Observed("search_news", <<PyStr(query), PyInt(max_results)>>,
                        _search_news_impl(query, max_results, outcome))
    /\ UNCHANGED <<cache, now, memo, exceptTool>>

search_images(query, max_results, outcome) ==
    /\ call' = Observed("search_images", <<PyStr(query), PyInt(max_results)>>,
                        _search_images_impl(query, max_results, outcome))
    /\ UNCHANGED <<cache, now, memo, exceptTool>>

search_youtube(query, max_results, outcome) ==
    /\ call' = Observed("search_youtube", <<PyStr(query), PyInt(max_results)>>,
                        _search_youtube_impl(query, max_results, outcome))
    /\ UNCHANGED <<cache, now, memo, exceptTool>>

search_maps(query, max_results, outcome) ==
    /\ call' = Observed("search_maps", <<PyStr(query), PyInt(max_results)>>,
                        _search_maps_impl(query, max_results, outcome))
    /\ UNCHANGED <<cache, now, memo, exceptTool>>

fetch_webpage(url, max_length, outcome) ==
    /\ call' = Observed("fetch_webpage", <<PyStr(url), PyInt(max_length)>>,
                        _fetch_webpage_impl(url, max_length, outcome))
    /\ UNCHANGED <<cache, now, memo, exceptTool>>

fetch_webpage_js(url, max_length, wait_time, outcome) ==
    /\ call' = Observed("fetch_webpage_js", <<PyStr(url), PyInt(max_length), PyInt(wait_time)>>,
                        _fetch_webpage_js_impl(url, max_length, wait_time, outcome))
    /\ UNCHANGED <<cache, now, memo, exceptTool>>

take_screenshot(url, full_page, output_path, outcome) ==
    /\ call' = Observed("take_screenshot", <<PyStr(url), PyBool(full_page), output_path>>,
                        _take_screenshot_impl(url, full_page, output_path, outcome))
    /\ UNCHANGED <<cache, now, memo, exceptTool>>

extract_links(url, same_domain_only, outcome) ==
    /\ call' = Observed("extract_links", <<PyStr(url), PyBool(same_domain_only)>>,
                        _extract_links_impl(url, same_domain_only, outcome))
    /\ UNCHANGED <<cache, now, memo, exceptTool>>

search_wikipedia(query, sentences, outcome) ==
    /\ call' = Observed("search_wikipedia", <<PyStr(query), PyInt(sentences)>>,
                        _search_wikipedia_impl(query, sentences, outcome))
    /\ UNCHANGED <<cache, now, memo, exceptTool>>

get_page_metadata(url, outcome) ==
    /\ call' = Observed("get_page_metadata", <<PyStr(url)>>, _get_page_metadata_impl(url, outcome))
    /\ UNCHANGED <<cache, now, memo, exceptTool>>

get_weather(location, outcome) ==
    /\ call' = Observed("get_weather", <<PyStr(location)>>, _get_weather_impl(location, outcome))
    /\ UNCHANGED <<cache, now, memo, exceptTool>>

translate_text(text, target_lang, source_lang, outcome) ==
    /\ call' = Observed("translate_text", <<PyStr(text), PyStr(target_lang), PyStr(source_lang)>>,
                        _translate_text_impl(text, target_lang, source_lang, outcome))
    /\ UNCHANGED <<cache, now, memo, exceptTool>>

crawl_website(url, n, sd, outcomes) ==
    /\ call' = Observed("crawl_website", <<PyStr(url), PyInt(n), PyBool(sd)>>,
                        _crawl_website_impl(url, n, sd, outcomes))
    /\ UNCHANGED <<cache, now, memo, exceptTool>>

\* env holds what the environment answered: what DDGS() raised and the outcome
\* of the search for each query processed
batch_search(queries, max_results_per_query, ctor, outcomes) ==
    /\ call' = [op |-> "batch_search",
                args |-> <<PyList(queries), PyInt(max_results_per_query)>>,
                key |-> None,
                ret |-> _batch_search_impl(queries, max_results_per_query, ctor, outcomes),
                ran |-> TRUE,
                env |-> [ctor |-> ctor, outcomes |-> outcomes]]
    /\ UNCHANGED <<cache, now, memo, exceptTool>>

\* the outcomes of a request of a cached tool: an exception, or an answer of
\* one piece of text at most
FewOutcomes(answers) ==
    {Raises("ConnectError")} \cup {Returns(d) : d \in {a \in answers : Len(a.text) <= 1}}

ServerNext ==
    \/ \E q \in Queries, n \in MaxResults, o \in SearchOutcomes : search_web(q, n, o)
    \/ \E q \in Queries, n \in MaxResults, o \in SearchOutcomes : search_news(q, n, o)
    \/ \E q \in Queries, n \in MaxResults, o \in SearchOutcomes : search_images(q, n, o)
    \/ \E q \in Queries, n \in MaxResults, o \in SearchOutcomes : search_youtube(q, n, o)
    \/ \E q \in Queries, n \in MaxResults, o \in SearchOutcomes : search_maps(q, n, o)
    \/ \E url \in WebUrls, n \in {1, 10000}, o \in Outcomes(Pages) : fetch_webpage(url, n, o)
    \/ \E url \in WebUrls, n \in MaxLengths, o \in BrowserOutcomes :
          fetch_webpage_js(url, n, 3000, o)
    \/ \E url \in WebUrls, fp \in BOOLEAN, path \in {None, PyStr(<<"out.png">>)},
          o \in BrowserOutcomes : take_screenshot(url, fp, path, o)
    \/ \E url \in WebUrls, sd \in BOOLEAN, o \in LinkOutcomes : extract_links(url, sd, o)
    \/ \E q \in Queries, n \in Sentences, o \in WikipediaOutcomes :
          search_wikipedia(q, n, o)
    \/ \E url \in WebUrls, o \in Outcomes(Pages) : get_page_metadata(url, o)
    \/ \E l \in Locations, o \in {Raises(e) : e \in JsonExceptions \cup {"IndexError"}}
                                   \cup {Returns(d) : d \in Reports} : get_weather(l, o)
    \/ \E t \in Texts, tl \in {<<"en">>}, sl \in LangCodes, o \in TranslateOutcomes :
          translate_text(t, tl, sl, o)
    \/ \E url \in MarkdownUrls, n \in MaxLengths, o \in FewOutcomes(Pages) :
          fetch_as_markdown(url, n, o)
    \/ \E url \in {<<"a.com", "/doc">>}, n \in MaxPagesArgs, o \in FewOutcomes(Downloads) :
          read_pdf_url(url, n, o)
    \/ \E v \in VideoUrls, l \in Languages, o \in FewOutcomes(Transcripts) :
          get_youtube_transcript(v, l, o)
    \/ \E url \in Seeds, n \in {0, 2}, sd \in BOOLEAN,
          os \in SeqsUpTo(CrawlAnswers, MaxRequests) : crawl_website(url, n, sd, os)
    \/ \E qs \in QueryLists, n \in MaxResults, ctor \in {"none"} \cup DdgsExceptions :
          \E os \in IF ctor = "none" THEN [1..Len(Processed(qs)) -> SearchOutcomes]
                                      ELSE {<<>>} :
             batch_search(qs, n, ctor, os)
    \/ ClearCacheTool

ServerSpec == Init /\ [][ServerNext]_vars


(***************************************************************************)
(* fetch_webpage_js and take_screenshot, statement by statement: the       *)
(* import, the with statement entered (sync_playwright() starts the        *)
(* Playwright driver), the browser launched, the page loaded and read, the *)
(* screenshot file written, browser.close(), and the return from inside    *)
(* the with statement.  Each statement can raise; an exception raised      *)
(* inside the with statement leaves it through its exit and reaches the    *)
(* except clause of the function.                                          *)
(***************************************************************************)
\* a sync_playwright() that is never stopped: its exit leaves the driver and
\* the browsers as they are
playwright_exit_leak(s) == s

\* the exit of `with sync_playwright() as p`: the driver is stopped, and with it
\* every browser it launched
playwright_exit(s) == [driver |-> FALSE, browsers |-> 0]

JsTools == {"fetch_webpage_js", "take_screenshot"}

\* the statements that run inside the with statement
InsideWith == {"launch", "goto", "read", "write", "close", "return"}

\* what the function returns: the result of the tool for the outcome of its
\* browser session
JsResult(c, outcome) ==
    IF c.op = "fetch_webpage_js"
    THEN _fetch_webpage_js_impl(c.url, 10000, 3, outcome)
    ELSE _take_screenshot_impl(c.url, FALSE, None, outcome)

\* a call of one of the two tools begins: the try block is entered
JsCall(op, url) ==
    /\ js_pc \in {"idle", "done"}
    /\ js_pc' = "import"
    /\ js_call' = [op |-> op, url |-> url, launched |-> FALSE]
    /\ UNCHANGED <<session, js_ret>>
    /\ UNCHANGED exceptJs

\* the statement at js_pc raises e: the with statement, if entered, is left
\* through its exit, and the except clause returns the error result
JsRaise(e) ==
    /\ js_pc \notin {"idle", "done"}
    /\ e = "ImportError" <=> js_pc = "import"
    /\ e = "OSError" => js_pc = "write"
    /\ session' = IF js_pc \in InsideWith THEN playwright_exit(session) ELSE session
    /\ js_ret' = JsResult(js_call, Raises(e))
    /\ js_pc' = "done"
    /\ UNCHANGED js_call
    /\ UNCHANGED exceptJs

\* from playwright.sync_api import sync_playwright
JsImport ==
    /\ js_pc = "import"
    /\ js_pc' = "enter"
    /\ UNCHANGED <<js_call, session, js_ret>>
    /\ UNCHANGED exceptJs

\* with sync_playwright() as p
JsEnter ==
    /\ js_pc = "enter"
    /\ session' = [session EXCEPT !.driver = TRUE]
    /\ js_pc' = "launch"
    /\ UNCHANGED <<js_call, js_ret>>
    /\ UNCHANGED exceptJs

\* browser = p.chromium.launch(headless=True)
JsLaunch ==
    /\ js_pc = "launch"
    /\ session' = [session EXCEPT !.browsers = @ + 1]
    /\ js_call' = [js_call EXCEPT !.launched = TRUE]
    /\ js_pc' = "goto"
    /\ UNCHANGED js_ret
    /\ UNCHANGED exceptJs

\* page = browser.new_page(); page.goto(url, ...); page.wait_for_timeout(...)
JsGoto ==
    /\ js_pc = "goto"
    /\ js_pc' = "read"
    /\ UNCHANGED <<js_call, session, js_ret>>
    /\ UNCHANGED exceptJs

\* the title and the text of the page read, or the screenshot taken
JsRead ==
    /\ js_pc = "read"
    /\ js_pc' = IF js_call.op = "take_screenshot" THEN "write" ELSE "close"
    /\ UNCHANGED <<js_call, session, js_ret>>
    /\ UNCHANGED exceptJs

\* with open(output_path, 'wb') as f: f.write(screenshot_bytes)
JsWrite ==
    /\ js_pc = "write"
    /\ js_pc' = "close"
    /\ UNCHANGED <<js_call, session, js_ret>>
    /\ UNCHANGED exceptJs

\* browser.close()
JsClose ==
    /\ js_pc = "close"
    /\ session' = [session EXCEPT !.browsers = @ - 1]
    /\ js_pc' = "return"
    /\ UNCHANGED <<js_call, js_ret>>
    /\ UNCHANGED exceptJs

\* return json.dumps(...), from inside the with statement
JsReturn(d) ==
    /\ js_pc = "return"
    /\ session' = playwright_exit(session)
    /\ js_ret' = JsResult(js_call, Returns(d))
    /\ js_pc' = "done"
    /\ UNCHANGED js_call
    /\ UNCHANGED exceptJs

JsExceptions == {"ImportError", "Error", "TimeoutError", "OSError"}

JsNext ==
    \/ \E op \in JsTools, url \in WebUrls : JsCall(op, url)
    \/ \E e \in JsExceptions : JsRaise(e)
    \/ JsImport
    \/ JsEnter
    \/ JsLaunch
    \/ JsGoto
    \/ JsRead
    \/ JsWrite
    \/ JsClose
    \/ \E d \in Pages : JsReturn(d)

JsSpec == Init /\ [][JsNext]_vars


(***************************************************************************)
(* Two threads that call fetch_as_markdown with the same arguments, one    *)
(* statement of SimpleCache.get and SimpleCache.set at a time: nothing in  *)
(* the code keeps a thread from running between two statements of another. *)
(***************************************************************************)
\* the call of every thread: _fetch_as_markdown_impl("a.com/x", 10000)
RaceUrl == <<"a.com", "/x">>

RaceLength == 10000

\* th with the call of thread t moved to statement pc
At(t, pc) == [th EXCEPT ![t].pc = pc]

\* the statement of thread t raises KeyError: the except clause of
\* _fetch_as_markdown_impl returns the error result
KeyErrorIn(t) ==
    [th EXCEPT ![t].pc = "done",
               ![t].ret = ErrorResult("url", RaceUrl, "Failed to fetch as markdown: ",
                                      "KeyError")]

\* cache_key = cache._make_key("markdown", url, max_length); cached = cache.get(cache_key)
ThreadCall(t) ==
    /\ th[t].pc \in {"idle", "done"}
    /\ th' = [th EXCEPT ![t] = [NoThreadCall EXCEPT
                  !.pc = "in_cache",
                  !.key = _make_key(<<PyStr(<<"markdown">>), PyStr(RaceUrl),
                                      PyInt(RaceLength)>>, <<>>)]]
    /\ UNCHANGED <<cache, now>>
    /\ UNCHANGED exceptThread

\* get: if key in self._cache
GetInCache(t) ==
    /\ th[t].pc = "in_cache"
    /\ th' = At(t, IF th[t].key \in DOMAIN cache._cache THEN "age" ELSE "request")
    /\ UNCHANGED <<cache, now>>
    /\ UNCHANGED exceptThread

\* get: if time.time() - self._timestamps[key] < self.default_ttl
GetAge(t) ==
    /\ th[t].pc = "age"
    /\ th' = IF th[t].key \notin DOMAIN cache._timestamps THEN KeyErrorIn(t)
             ELSE IF now - cache._timestamps[th[t].key] < cache.default_ttl
             THEN At(t, "value")
             ELSE At(t, "del_value")
    /\ UNCHANGED <<cache, now>>
    /\ UNCHANGED exceptThread

\* get: return self._cache[key]; then `if cached: return cached`
GetValue(t) ==
    /\ th[t].pc = "value"
    /\ th' = IF th[t].key \notin DOMAIN cache._cache THEN KeyErrorIn(t)
             ELSE [th EXCEPT ![t].pc = "done", ![t].ret = cache._cache[th[t].key]]
    /\ UNCHANGED <<cache, now>>
    /\ UNCHANGED exceptThread

\* get: del self._cache[key]
GetDelValue(t) ==
    /\ th[t].pc = "del_value"
    /\ IF th[t].key \notin DOMAIN cache._cache
       THEN th' = KeyErrorIn(t) /\ UNCHANGED cache
       ELSE /\ th' = At(t, "del_stamp")
            /\ cache' = [cache EXCEPT !._cache = DictDel(cache._cache, th[t].key)]
    /\ UNCHANGED now
    /\ UNCHANGED exceptThread

\* get: del self._timestamps[key]; return None
GetDelStamp(t) ==
    /\ th[t].pc = "del_stamp"
    /\ IF th[t].key \notin DOMAIN cache._timestamps
       THEN th' = KeyErrorIn(t) /\ UNCHANGED cache
       ELSE /\ th' = At(t, "request")
            /\ cache' = [cache EXCEPT !._timestamps = DictDel(cache._timestamps, th[t].key)]
    /\ UNCHANGED now
    /\ UNCHANGED exceptThread

\* the page requested and converted, and the result built
ThreadRequest(t, outcome) ==
    /\ th[t].pc = "request"
    /\ th' = IF outcome.exc # "none"
             THEN [th EXCEPT ![t].pc = "done", ![t].ran = TRUE,
                             ![t].ret = ErrorResult("url", NormalizeUrl(RaceUrl),
                                                    "Failed to fetch as markdown: ",
                                                    outcome.exc)]
             ELSE [th EXCEPT ![t].pc = "set_value", ![t].ran = TRUE,
                             ![t].result = [status |-> "success",
                                            url |-> NormalizeUrl(RaceUrl),
                                            title |-> outcome.data.title,
                                            content_markdown |->
                                                Truncate(outcome.data.text, RaceLength)]]
    /\ UNCHANGED <<cache, now>>
    /\ UNCHANGED exceptThread

\* set: self._cache[key] = value
SetValue(t) ==
    /\ th[t].pc = "set_value"
    /\ cache' = [cache EXCEPT !._cache = DictSet(cache._cache, th[t].key, th[t].result)]
    /\ th' = At(t, "set_stamp")
    /\ UNCHANGED now
    /\ UNCHANGED exceptThread

\* set: self._timestamps[key] = time.time(); then return result
SetStamp(t) ==
    /\ th[t].pc = "set_stamp"
    /\ cache' = [cache EXCEPT !._timestamps = DictSet(cache._timestamps, th[t].key, now)]
    /\ th' = [th EXCEPT ![t].pc = "done", ![t].ret = th[t].result,
                        ![t].stored = TRUE, ![t].stamp = now]
    /\ UNCHANGED now
    /\ UNCHANGED exceptThread

RaceTick(d) ==
    /\ now + d <= MaxToolTime
    /\ now' = now + d
    /\ UNCHANGED <<cache, th>>
    /\ UNCHANGED exceptThread

RaceNext ==
    \/ \E t \in Threads : ThreadCall(t)
    \/ \E t \in Threads : GetInCache(t)
    \/ \E t \in Threads : GetAge(t)
    \/ \E t \in Threads : GetValue(t)
    \/ \E t \in Threads : GetDelValue(t)
    \/ \E t \in Threads : GetDelStamp(t)
    \/ \E t \in Threads, o \in Outcomes(Pages) : ThreadRequest(t, o)
    \/ \E t \in Threads : SetValue(t)
    \/ \E t \in Threads : SetStamp(t)
    \/ \E d \in TickSteps : RaceTick(d)

RaceSpec == Init /\ [][RaceNext]_vars


(***************************************************************************)
(* Properties of SimpleCache, checked under Spec.                          *)
(***************************************************************************)
Fresh(k) == k \in DOMAIN cache._cache /\ now - setAt[k] < DefaultTtl

\* C1: set(k, v) followed at once by get(k), with no time elapsed and no clear
\* in between, returns v, whatever the cache held before.
C1_SetThenGet ==
    (prev.op = "set" /\ last.op = "get" /\ last.key = prev.key)
        => (last.ret = prev.value /\ last.exc = "none")

\* the get after a set that replaced an entry holding another value
C1_Witness ==
    /\ prev.op = "set" /\ last.op = "get" /\ last.key = prev.key
    /\ last.ret = prev.value /\ last.ret # None
    /\ now > 0

\* C2: get(k) returns the stored value exactly when an entry for k exists and
\* less than default_ttl seconds have passed since the latest set(k); at an age
\* of exactly default_ttl it is a miss.  The age is counted from the set, so a
\* read never extends an entry's life.
C2_HitIffFresh ==
    [][last'.op = "get" =>
         /\ last'.exc = "none"
         /\ last'.ret = IF Fresh(last'.key) THEN cache._cache[last'.key] ELSE None
         /\ Fresh(last'.key) => cache' = cache]_vars

\* a get that misses an entry aged exactly default_ttl
C2_Witness ==
    /\ last.op = "get" /\ last.ret = None
    /\ last.key \in DOMAIN setAt /\ now - setAt[last.key] = DefaultTtl
    /\ prev.op = "tick"

\* C3: once more than default_ttl seconds have passed since set(k, v), the first
\* get(k) is a miss and removes k from both _cache and _timestamps; a get of a
\* key that is not stored is a miss and stores nothing, and only set(k) stores k
\* again.
C3_ExpiredRemoved ==
    [][/\ (last'.op = "get" /\ last'.key \in DOMAIN cache._cache
              /\ now - setAt[last'.key] > DefaultTtl)
           => /\ last'.ret = None
              /\ last'.key \notin DOMAIN cache'._cache
              /\ last'.key \notin DOMAIN cache'._timestamps
       /\ (last'.op = "get" /\ last'.key \notin DOMAIN cache._cache)
           => (last'.ret = None /\ cache' = cache)
       /\ \A k \in Keys :
            (k \notin DOMAIN cache._cache /\ k \in DOMAIN cache'._cache)
                => (last'.op = "set" /\ last'.key = k)]_vars

\* the get that found an entry older than default_ttl and removed it
C3_Witness ==
    /\ last.op = "get" /\ last.ret = None /\ prev.op = "tick"
    /\ last.key \in DOMAIN setAt /\ now - setAt[last.key] > DefaultTtl
    /\ last.key \notin DOMAIN cache._cache
    /\ last.key \notin DOMAIN cache._timestamps
    /\ DOMAIN cache._cache # {}

\* C4: set(k, v) overwrites whatever entry k had, valid or expired: afterwards k
\* maps to v with the time of this set as its insertion time, and the entries of
\* the other keys are as they were.
C4_SetOverwrites ==
    [][last'.op = "set" =>
         /\ last'.key \in DOMAIN cache'._cache
         /\ cache'._cache[last'.key] = last'.value
         /\ DOMAIN cache'._timestamps = DOMAIN cache'._cache
         /\ cache'._timestamps[last'.key] = now'
         /\ \A k \in (DOMAIN cache._cache) \ {last'.key} :
              /\ k \in DOMAIN cache'._cache
              /\ cache'._cache[k] = cache._cache[k]
              /\ cache'._timestamps[k] = cache._timestamps[k]]_vars

\* a set that replaced the value another set had just stored, after the clock
\* had advanced
C4_Witness ==
    /\ last.op = "set" /\ prev.op = "set" /\ prev.key = last.key
    /\ prev.value # last.value
    /\ cache._cache[last.key] = last.value
    /\ cache._timestamps[last.key] = now /\ now >= DefaultTtl

\* C5: the ttl argument of set changes nothing that can be observed: a cache
\* whose sets carry a ttl and a cache driven by the same calls at the same times
\* with the ttl left out return the same value from every get, and hold the same
\* entries.
C5_TtlIgnored ==
    /\ last.ret = last.twinRet
    /\ cache = twin

\* a hit on an entry that was set with ttl=0
C5_Witness ==
    /\ prev.op = "set" /\ prev.ttl = PyInt(0)
    /\ last.op = "get" /\ last.key = prev.key
    /\ last.ret = prev.value /\ last.ret # None

\* C6: after clear(), and after the clear_cache tool, the store holds no entry;
\* a get of a key that is not stored is a miss and stores nothing, and only
\* set(k) stores k again.
C6_ClearEmpties ==
    [][/\ last'.op \in {"clear", "clear_cache"}
           => (DOMAIN cache'._cache = {} /\ DOMAIN cache'._timestamps = {})
       /\ (last'.op = "get" /\ last'.key \notin DOMAIN cache._cache)
           => (last'.ret = None /\ cache' = cache)
       /\ \A k \in Keys :
            (k \notin DOMAIN cache._cache /\ k \in DOMAIN cache'._cache)
                => (last'.op = "set" /\ last'.key = k)]_vars

\* a miss right after a clear that dropped an entry set at the same instant
C6_Witness ==
    /\ last.op = "get" /\ last.ret = None
    /\ prev.op \in {"clear", "clear_cache"}
    /\ last.key \in DOMAIN setAt /\ setAt[last.key] = now

(***************************************************************************)
(* Properties of _make_key, checked under KeySpec.                         *)
(***************************************************************************)
\* C7: two calls of _make_key with the same positional arguments in the same
\* order and the same keyword name/value pairs, written in any order, return
\* the same key.
C7_KeywordOrder ==
    (mk.called /\ mkPrev.called /\ mk.args = mkPrev.args
        /\ AsDict(mk.kwargs) = AsDict(mkPrev.kwargs))
        => mk.key = mkPrev.key

\* make_key(a=1, b=2) after make_key(b=2, a=1)
C7_Witness ==
    /\ mkPrev.called /\ mk.called
    /\ mkPrev.kwargs = <<(<<"b", PyInt(2)>>), (<<"a", PyInt(1)>>)>>
    /\ mk.kwargs = <<(<<"a", PyInt(1)>>), (<<"b", PyInt(2)>>)>>
    /\ mk.args = mkPrev.args
    /\ mk.key = mkPrev.key

(***************************************************************************)
(* Properties of the cached tools, checked under ToolSpec.                 *)
(***************************************************************************)
Valid(k) == k \in DOMAIN cache._cache /\ now - cache._timestamps[k] < DefaultTtl

\* C8: for fetch_as_markdown, read_pdf_url and get_youtube_transcript: when a
\* call succeeded, a later call of the same tool with the same arguments, made
\* with no clear_cache in between and less than 300 s after the result was
\* stored (by that call, or by the earlier call whose cached result it
\* returned), returns the very result of that call and does not invoke the
\* external operation.
C8_SecondCallCached ==
    [][(/\ call'.op \in CachedTools
        /\ <<call'.op, call'.args>> \in DOMAIN memo
        /\ now - memo[<<call'.op, call'.args>>].at < DefaultTtl)
           => /\ call'.ret = memo[<<call'.op, call'.args>>].ret
              /\ ~call'.ran]_vars

\* a call answered from the cache 299 s after the result was stored, when each
\* of the three tools has succeeded
C8_Witness ==
    /\ call.op \in CachedTools /\ ~call.ran
    /\ <<call.op, call.args>> \in DOMAIN memo
    /\ call.ret = memo[<<call.op, call.args>>].ret
    /\ call.ret.status = "success"
    /\ now - memo[<<call.op, call.args>>].at = DefaultTtl - 1
    /\ \A t \in CachedTools : \E a \in DOMAIN memo : a[1] = t

\* C9: an entry is stored or changed only by a call of a cached tool that
\* missed the cache, ran its external operation and succeeded, and what is
\* stored is the result returned; a call that ends in an error stores nothing,
\* leaves every valid entry as it was and leaves no entry under its own key, so
\* that the identical call made next runs the external operation again; every
\* stored value is a success result.
C9_OnlySuccessStored ==
    [][/\ \A k \in DOMAIN cache'._cache :
            (\/ k \notin DOMAIN cache._cache
             \/ cache'._cache[k] # cache._cache[k]
             \/ cache'._timestamps[k] # cache._timestamps[k])
                => /\ call'.op \in CachedTools
                   /\ call'.key = k
                   /\ ~Valid(k)
                   /\ call'.ran
                   /\ call'.ret.status = "success"
                   /\ cache'._cache[k] = call'.ret
       /\ (call'.op \in CachedTools /\ call'.ret.status = "error")
            => /\ DOMAIN cache'._cache \subseteq DOMAIN cache._cache
               /\ call'.key \notin DOMAIN cache'._cache
               /\ \A k \in DOMAIN cache._cache :
                    Valid(k) => /\ k \in DOMAIN cache'._cache
                                /\ cache'._cache[k] = cache._cache[k]
                                /\ cache'._timestamps[k] = cache._timestamps[k]
       /\ (/\ call.op \in CachedTools
           /\ call.ret.status = "error"
           /\ call.ran
           /\ call'.op = call.op
           /\ call'.args = call.args)
            => call'.ran
       /\ \A k \in DOMAIN cache'._cache : cache'._cache[k].status = "success"]_vars

\* a download that turned out to be no PDF, with the entries of two other tools
\* in the cache and none under the call's own key
C9_Witness ==
    /\ call.op = "read_pdf_url" /\ call.ran
    /\ call.ret.status = "error"
    /\ call.key \notin DOMAIN cache._cache
    /\ Cardinality(DOMAIN cache._cache) = 2
    /\ \A k \in DOMAIN cache._cache : Valid(k)

Urls(records) == {records[i].url : i \in DOMAIN records}

NoDupUrls(records) ==
    \A i, j \in DOMAIN records : records[i].url = records[j].url => i = j

\* C11: with same_domain = True, whatever the pages link to, every URL recorded
\* in pages and every URL ever placed in to_visit has the host of the seed URL as
\* normalised (the scheme added); the result returned holds the same pages.
C11_SameDomain ==
    (same_domain /\ crawl_pc \in {"loop", "done"} /\ enq # <<>>)
        => /\ base_domain = netloc(start_url)
           /\ \A i \in DOMAIN enq : netloc(enq[i]) = netloc(start_url)
           /\ Range(to_visit) \subseteq Range(enq)
           /\ \A i \in DOMAIN pages : netloc(pages[i].url) = netloc(start_url)
           /\ (crawl_pc = "done" => crawl_ret.pages = pages)

\* a crawl with same_domain = True that has returned two pages, the second of
\* which held a link to another host
C11_Witness ==
    /\ crawl_pc = "done" /\ same_domain
    /\ Len(pages) = 2
    /\ step.url = pages[2].url
    /\ \E i \in DOMAIN step.verdicts : step.verdicts[i] = "other_domain"

\* C12: within one crawl every URL is requested at most once, also when several
\* pages link to it or the links form a cycle: each visited.add adds a URL that
\* was not in visited, visited never loses an element, visited is the set of the
\* URLs requested, and no two records of pages have the same URL.
C12_FetchedOnce ==
    [][/\ (crawl_pc = "loop" => visited \subseteq visited')
       /\ (crawl_pc = "loop" /\ fetched' # fetched)
             => /\ fetched' = Append(fetched, fetched'[Len(fetched')])
                /\ fetched'[Len(fetched')].url \notin visited
                /\ visited' = visited \cup {fetched'[Len(fetched')].url}
       /\ NoDupUrls(fetched')
       /\ NoDupUrls(pages')
       /\ visited' = Urls(fetched')
       /\ Urls(pages') \subseteq visited']_vars

\* a crawl that has returned three pages, two of which link to the third, which
\* links back to one of them
C12_Witness ==
    /\ crawl_pc = "done" /\ Len(pages) = 3
    /\ \E u \in DOMAIN kept :
          /\ Cardinality({p \in DOMAIN kept : p # u /\ u \in kept[p]}) = 2
          /\ \E p \in kept[u] : p # u /\ p \in DOMAIN kept /\ u \in kept[p]

\* C13: when the request for a page B fails (ConnectError, HTTPStatusError) or
\* its body does not parse (ParserError), the iteration leaves pages and the
\* URLs enqueued as they are and takes only B off to_visit, which is the state
\* that a page B without anchors leaves except for the record of B; the loop
\* goes on, B is in no record of pages, no link is recorded for B, and the crawl
\* returns a success result with the pages recorded.
C13_FailureSkipsPage ==
    [][/\ (crawl_pc = "loop" /\ fetched' # fetched /\ ~fetched'[Len(fetched')].ok)
             => /\ fetched'[Len(fetched')].url = Head(to_visit)
                /\ pages' = pages
                /\ enq' = enq
                /\ to_visit' = Tail(to_visit)
                /\ to_visit' = FindLinks(<<>>, 1, Head(to_visit), same_domain, base_domain,
                                         visited', Tail(to_visit))
                /\ visited' = visited_add(visited, Head(to_visit))
                /\ crawl_pc' = "loop"
       /\ \A i \in DOMAIN fetched' :
             ~fetched'[i].ok => /\ fetched'[i].url \notin Urls(pages')
                                /\ fetched'[i].url \notin DOMAIN kept'
       /\ (crawl_pc' = "done" /\ fetched' # <<>>)
             => /\ crawl_ret'.status = "success"
                /\ crawl_ret'.pages = pages']_vars

\* a crawl that has returned success with two pages, one requested before and
\* one after a URL whose request failed
C13_Witness ==
    /\ crawl_pc = "done" /\ crawl_ret.status = "success"
    /\ Len(fetched) = 3 /\ fetched[1].ok /\ ~fetched[2].ok /\ fetched[3].ok
    /\ Len(crawl_ret.pages) = 2
    /\ crawl_ret.pages[2].url = fetched[3].url

\* C14, as claimed: a crawl returns status "error" exactly when the request for
\* its seed, the first request of the crawl, has failed; the failure of a later
\* request never gives status "error".
C14_SeedFailureIsError ==
    (crawl_pc = "done" /\ fetched # <<>>)
        => (crawl_ret.status = "error" <=> ~fetched[1].ok)

\* C14, amended: no failed request gives status "error", the seed's included.
\* A crawl whose seed request fails returns status "success" with no page; the
\* failure of a later request leaves status "success" too; status "error" is
\* returned only when the crawl fails before its first request, on a seed URL
\* that urlparse rejects.
C14_OnlyBadUrlIsError ==
    crawl_pc = "done"
        => /\ crawl_ret.status \in {"success", "error"}
           /\ crawl_ret.status = "error" <=> UrlRaises(start_url)
           /\ crawl_ret.status = "error" => fetched = <<>>
           /\ (fetched # <<>> /\ ~fetched[1].ok)
                 => /\ crawl_ret.status = "success"
                    /\ crawl_ret.pages = <<>>
                    /\ crawl_ret.pages_crawled = 0
           /\ (\E i \in DOMAIN fetched : ~fetched[i].ok) => crawl_ret.status = "success"

\* a crawl whose only request, for its seed, has failed, and which has returned
\* status "success" with no page
C14_Witness ==
    /\ crawl_pc = "done"
    /\ Len(fetched) = 1 /\ ~fetched[1].ok
    /\ fetched[1].url = start_url
    /\ max_pages > 0
    /\ crawl_ret.status = "success"
    /\ crawl_ret.pages_crawled = 0

\* the pages within one link of a set of URLs, by the links kept
KeptNext(S) == S \cup UNION {kept[p] : p \in S \cap DOMAIN kept}

\* the link distance of u from the seed through the pages recorded and the
\* links kept; -1 when no path leads to u
RECURSIVE DistFrom(_, _, _)
DistFrom(u, S, k) ==
    IF u \in S THEN k
    ELSE IF KeptNext(S) = S THEN -1
    ELSE DistFrom(u, KeptNext(S), k + 1)

Dist(u) == DistFrom(u, {start_url}, 0)

BadTarget(url) ==
    \/ \E i \in DOMAIN url : url[i] = "#"
    \/ url[1] \in {"mailto:", "tel:"}
    \/ Lower(url[Len(url)]) \in {".pdf", ".jpg", ".css", ".js"}

LinksNext(S) == S \cup UNION {links[p] : p \in S \cap DOMAIN links}

\* the URLs reachable from the seed along links that pass the filters
RECURSIVE ReachFrom(_)
ReachFrom(S) == IF LinksNext(S) = S THEN S ELSE ReachFrom(LinksNext(S))

Reachable == ReachFrom({start_url})

\* C17: when every request of a crawl has succeeded and max_pages is at least
\* the number of URLs reachable from the seed along links that pass the
\* filters, the URLs of the pages returned are exactly those URLs.
C17_PagesAreReachable ==
    (/\ crawl_pc = "done" /\ crawl_ret.status = "success"
     /\ \A i \in DOMAIN fetched : fetched[i].ok
     /\ max_pages >= Cardinality(Reachable))
        => Urls(crawl_ret.pages) = Reachable


(***************************************************************************)
(* Properties of the results of the tools, checked under ServerSpec.       *)
(***************************************************************************)
Statuses == {"success", "error", "not_found"}

\* C18: whatever its external call answered or raised, a tool call returns a
\* JSON object with a status field that is "success", "error" or
\* "not_found"; no exception leaves the tool.
C18_Envelope ==
    call.op \notin {"none", "tick"} =>
        /\ "status" \in DOMAIN call.ret
        /\ call.ret.status \in Statuses

\* the request of fetch_webpage raised a transport exception and the call
\* returned an error result
C18_Witness ==
    /\ call.op = "fetch_webpage"
    /\ call.ret = ErrorResult("url", <<"https://", "a.com">>,
                              "Failed to fetch webpage: ", "ConnectError")

\* the names under which an error result echoes the input of the call
EchoFields == {"url", "query", "location", "text", "video_id"}

\* C19: every error result of every tool has status "error", a field echoing
\* the input identifier of the call (url, query, location, text or video id)
\* and a message field.
C19_ErrorShape ==
    (/\ call.op \notin {"none", "tick"}
     /\ "status" \in DOMAIN call.ret
     /\ call.ret.status = "error")
        => /\ {"echo", "ident", "message"} \subseteq DOMAIN call.ret
           /\ call.ret.echo \in EchoFields
           /\ call.ret.ident # <<>>
           /\ call.ret.message # <<>>

\* a call of batch_search in which DDGS() was created: its searches were made
BatchRan == call.op = "batch_search" /\ call.env.ctor = "none"

\* the queries of the call that were processed, in order
BatchQueries == Processed(call.args[1].list)

\* what the search for the i-th processed query leaves under the query's key
BatchRecord(i) ==
    IF call.env.outcomes[i].exc # "none"
    THEN [error |-> call.env.outcomes[i].exc]
    ELSE PyList(FormatResults(call.env.outcomes[i].data))

\* C20 as stated: when the search for a processed query fails, the batch is
\* not aborted: the overall status is "success", the failing query has an
\* error record under its key, and every other processed query, its search
\* having succeeded, has its result list under its key.
C20_FailureIsolated ==
    BatchRan =>
        \A i \in DOMAIN BatchQueries :
            call.env.outcomes[i].exc # "none" =>
                /\ call.ret.status = "success"
                /\ BatchQueries[i] \in DOMAIN call.ret.results
                /\ call.ret.results[BatchQueries[i]] = BatchRecord(i)
                /\ \A j \in DOMAIN BatchQueries \ {i} :
                      call.env.outcomes[j].exc = "none" =>
                          /\ BatchQueries[j] \in DOMAIN call.ret.results
                          /\ call.ret.results[BatchQueries[j]] = BatchRecord(j)

\* the last place at which query q was processed
LastOf(q) ==
    CHOOSE i \in DOMAIN BatchQueries :
        /\ BatchQueries[i] = q
        /\ \A j \in DOMAIN BatchQueries : BatchQueries[j] = q => j <= i

\* C20: the batch is not aborted by the failure of a search: the overall
\* status is "success" and the results have one key for each processed query
\* string, holding what the last search for that string left: an error record
\* if it failed, its result list otherwise.  When the processed queries are
\* pairwise distinct, each failing query has its error record and each other
\* query its result list.
C20_LastOccurrenceKept ==
    BatchRan =>
        /\ call.ret.status = "success"
        /\ DOMAIN call.ret.results = Range(BatchQueries)
        /\ \A q \in DOMAIN call.ret.results :
              call.ret.results[q] = BatchRecord(LastOf(q))
        /\ (\A i, j \in DOMAIN BatchQueries : BatchQueries[i] = BatchQueries[j] => i = j)
              => \A i \in DOMAIN BatchQueries :
                    call.ret.results[BatchQueries[i]] = BatchRecord(i)

\* a batch of two different queries: the search for the first failed, the
\* search for the second found a result, and both are in the results
C20_Witness ==
    /\ BatchRan
    /\ BatchQueries = <<<<"q1">>, <<"q2">>>>
    /\ call.env.outcomes[1].exc = "TimeoutException"
    /\ call.env.outcomes[2].exc = "none" /\ call.env.outcomes[2].data # <<>>
    /\ call.ret.status = "success"
    /\ call.ret.results[<<"q1">>] = [error |-> "TimeoutException"]
    /\ call.ret.results[<<"q2">>] = PyList(FormatResults(call.env.outcomes[2].data))


(***************************************************************************)
(* The two maps of SimpleCache, checked under Spec.                        *)
(***************************************************************************)
SameKeys(c) == DOMAIN c._cache = DOMAIN c._timestamps

\* the entries of every key other than k are the same in c and d
OthersUnchanged(c, d, k) ==
    \A j \in Keys \ {k} :
        /\ j \in DOMAIN c._cache <=> j \in DOMAIN d._cache
        /\ j \in DOMAIN c._timestamps <=> j \in DOMAIN d._timestamps
        /\ j \in DOMAIN c._cache /\ j \in DOMAIN d._cache => c._cache[j] = d._cache[j]
        /\ j \in DOMAIN c._timestamps /\ j \in DOMAIN d._timestamps
              => c._timestamps[j] = d._timestamps[j]

\* C26: before and after every get, set and clear the value map and the
\* timestamp map have the same keys, no get raises for a value without a
\* timestamp, and a get or set on key k leaves the entries of every other
\* key as they were.
C26_MapsInStep ==
    [][/\ SameKeys(cache) /\ SameKeys(cache')
       /\ last'.exc = "none"
       /\ last'.op \in {"get", "set"} => OthersUnchanged(cache, cache', last'.key)]_vars

\* a get has just removed the expired entry of its key, from both maps, while
\* the entry of another key stayed
C26_Witness ==
    /\ last.op = "get" /\ last.ret = None
    /\ last.key \in DOMAIN setAt /\ now - setAt[last.key] >= DefaultTtl
    /\ last.key \notin DOMAIN cache._cache \cup DOMAIN cache._timestamps
    /\ \E j \in DOMAIN cache._cache : j # last.key /\ j \in DOMAIN cache._timestamps


(***************************************************************************)
(* More properties of crawl_website, checked under CrawlSpec.              *)
(***************************************************************************)
NoDup(seq) == \A i, j \in DOMAIN seq : seq[i] = seq[j] => i = j

\* C25: no URL is appended to to_visit twice in a crawl; at the head of every
\* iteration of the while loop to_visit holds no URL twice and no URL of
\* visited, so no iteration takes the branch of the URL already visited.
C25_FrontierOnce ==
    /\ NoDup(enq)
    /\ crawl_pc = "loop" => /\ NoDup(to_visit)
                            /\ Range(to_visit) \cap visited = {}
    /\ step.exc = "-" => step = NoStep

\* an iteration on a page whose anchors lead to a URL already visited and to a
\* URL already in to_visit: both pass the filters and neither is appended
C25_Witness ==
    /\ crawl_pc = "loop" /\ step.exc = "none" /\ step.added = <<>>
    /\ \E u, w \in kept[step.url] : u \in visited /\ w \in Range(to_visit)

\* what is left of the work of a crawl: each page still allowed by max_pages can
\* add the links of one page to to_visit, and each URL of to_visit costs one
\* iteration
Remaining(tv, pgs, n) == (n - Len(pgs)) * MaxLinks + Len(tv)

Extensions == {".pdf", ".jpg", ".png", ".gif", ".css", ".js"}

\* the URL ends in one of the extensions
EndsInExtension(url) == Len(url) > 0 /\ Lower(url[Len(url)]) \in Extensions

\* the href is a fragment and nothing else
FragmentOnly(href) == Len(href) > 0 /\ href[1] = "#"

\* a reason for which a link with this href and this target may be left out
MayDiscard(href, target) ==
    \/ ~startswith_http(target)
    \/ same_domain /\ netloc(target) # base_domain
    \/ EndsInExtension(target)
    \/ FragmentOnly(href)
    \/ target[1] \in {"mailto:", "tel:"}

\* C23: after an iteration on a page that was fetched, every target of an
\* anchor of the page that is an http(s) URL, of the seed's host when
\* same_domain is on, that does not end in a listed extension, whose href is
\* not a fragment only and that is no mailto: or tel: link, is in visited or
\* in to_visit: it was there already or it has been appended.
C23_OnlyContractReasons ==
    (crawl_pc = "loop" /\ step.exc = "none") =>
        \A i \in DOMAIN page :
            ~MayDiscard(page[i], urljoin(step.url, page[i]))
                => urljoin(step.url, page[i]) \in visited \cup Range(to_visit)


BothReturned == \A t \in Threads : th[t].pc = "done"

\* the entry a finished cache.set of thread t wrote is still younger than the ttl
StillFresh(t) == th[t].stored => now - th[t].stamp < DefaultTtl

\* the cache holds, for the key, the value and the timestamp that the
\* cache.set of thread t wrote
HoldsEntryOf(t) ==
    /\ th[t].stored
    /\ th[t].key \in DOMAIN cache._cache
    /\ th[t].key \in DOMAIN cache._timestamps
    /\ cache._cache[th[t].key] = th[t].result
    /\ cache._timestamps[th[t].key] = th[t].stamp

\* C21: when two callers run the same cacheable call concurrently, once both
\* have returned and a cache.set of theirs has run (its entry not yet older
\* than the ttl), the cache holds exactly one entry for the key: the value
\* and the timestamp written by one of those sets.
C21_OneEntryOfOneSet ==
    (/\ BothReturned
     /\ \E t \in Threads : th[t].stored
     /\ \A t \in Threads : StillFresh(t))
    => \E t \in Threads : HoldsEntryOf(t)


====
